---------------------------- MODULE Spec2Model ----------------------------
(***************************************************************************)
(* Survey document validation, normalisation and LOI pipeline of           *)
(* SurveyPlatform (backend/core).                                          *)
(*                                                                         *)
(*   SurveyValidator.validate      validate_survey.py                      *)
(*   validate_and_normalise,                                               *)
(*   build_static_assets           render_survey.py                        *)
(*   LOICalculator                 loi_calculator.py                       *)
(*                                                                         *)
(* Conventions of the encoding.                                            *)
(*  - A question is a record with the fields the code reads.  A list      *)
(*    field (options, rows, columns) holds a sequence of strings, or one   *)
(*    of two marker values: None (the key holds Python None / JSON null)   *)
(*    and Absent (the key is not in the dict).                             *)
(*  - A string field holds its text, or AbsentStr when the key is not in   *)
(*    the dict, or NoneStr when it holds None.                             *)
(*  - question_text ranges over representative texts; the keyword matchers *)
(*    of the code (regular expressions over the text) are tabulated for    *)
(*    these texts.                                                         *)
(*  - A ValidationResult is kept as check_id, severity, question_id and    *)
(*    section; the free-text message, action_taken and suggestion are left  *)
(*    out.                                                                 *)
(***************************************************************************)
EXTENDS Integers, Sequences, FiniteSets, TLC

VARIABLES
    docs,       \* validator: docs[1] is the caller's survey, docs[k+1] the patched survey of pass k
    runs,       \* validator: runs[k] is the result list of pass k
    brief,      \* validator: the brief of every pass
    caller,     \* the caller's survey object as it is after the last call
    nsurvey,    \* normaliser: the validate_and_normalise calls, one after the other
                \* (the argument, the survey and the issues returned); <<>> before the first
    assets,     \* what build_static_assets returned, or that it raised
    loi,        \* LOI calculator: self.survey (its questions and its loi_config)
    patch,      \* apply_json_patch: the document and the ops of the call, how the
                \* call ended, and the document object as the call left it
    routing,    \* _build_routing_index: its arguments and the routing_index it returned
    batch,      \* main(): how the batch run ended and the files it wrote
    render      \* render_ui_spec: the document and the UI specs rendered from it

vars == <<docs, runs, brief, caller, nsurvey, assets, loi, patch, routing, batch, render>>

-----------------------------------------------------------------------------
(* Python values *)

None == <<"$None">>
Absent == <<"$Absent">>
NoneStr == "$None"
AbsentStr == "$Absent"

\* bool(x) of a string-valued field
TruthyStr(x) == x \notin {"", NoneStr, AbsentStr}

\* bool(x) of a list-valued field
Truthy(x) == x # None /\ x # Absent /\ x # <<>>

\* len(x) where the code guards it with a truthiness test first
LenOf(x) == IF x = None \/ x = Absent THEN 0 ELSE Len(x)

\* q.get(key) of a list-valued key: an absent key reads as None
GetOrNone(x) == IF x = Absent THEN None ELSE x

\* q.get(key, []) of a list-valued key: an absent key reads as []
GetOrEmpty(x) == IF x = Absent THEN <<>> ELSE x

RECURSIVE Flatten(_)
Flatten(ss) == IF ss = <<>> THEN <<>> ELSE Head(ss) \o Flatten(Tail(ss))

\* list.remove(x): drops the first element equal to x
RECURSIVE RemoveFirst(_, _)
RemoveFirst(s, x) ==
    IF s = <<>> THEN <<>>
    ELSE IF Head(s) = x THEN Tail(s)
    ELSE <<Head(s)>> \o RemoveFirst(Tail(s), x)

\* list.insert(i, x) with a 0-based index; Python clamps i to len(s)
InsertAt(s, i, x) ==
    LET k == IF i > Len(s) THEN Len(s) ELSE i
    IN  SubSeq(s, 1, k) \o <<x>> \o SubSeq(s, k + 1, Len(s))

SelectIdx(s, P(_)) ==
    LET RECURSIVE Go(_)
        Go(i) == IF i > Len(s) THEN <<>>
                 ELSE (IF P(s[i]) THEN <<i>> ELSE <<>>) \o Go(i + 1)
    IN  Go(1)

Range(s) == {s[i] : i \in DOMAIN s}

\* F(x), with x evaluated once and handed to F as a value: a call on the
\* object that the calls before it have left
Then(x, F(_)) == CHOOSE r \in {F(v) : v \in {x}} : TRUE

-----------------------------------------------------------------------------
(* ValidationResult *)

Result(check, sev, qid, sec) ==
    [check_id |-> check, severity |-> sev, question_id |-> qid, section |-> sec]

\* The state a check works on: the working copy and the results so far.
St(survey, results) == [survey |-> survey, results |-> results]

\* Runs a per-question check F over SCREENER, DEMOGRAPHICS and then every
\* MAIN_SECTION subsection, in the order every per-question loop of the
\* validator uses.  F(q, section, idx) gives [q |-> q', res |-> <<...>>]; idx is
\* the 0-based index of the subsection (enumerate), -1 in the two flat sections.
ForEachQuestion(st, F(_, _, _)) ==
    LET s    == st.survey
        subs == s.MAIN_SECTION.sub_sections
        Map(qs, sec, idx) == [i \in 1..Len(qs) |-> F(qs[i], sec, idx)]
        Qs(m)  == [i \in 1..Len(m) |-> m[i].q]
        Res(m) == Flatten([i \in 1..Len(m) |-> m[i].res])
        scr  == Map(s.SCREENER.questions, "SCREENER", -1)
        dem  == Map(s.DEMOGRAPHICS.questions, "DEMOGRAPHICS", -1)
        main == [k \in 1..Len(subs) |-> Map(subs[k].questions, subs[k].subsection_id, k - 1)]
    IN  St([s EXCEPT !.SCREENER.questions = Qs(scr),
                     !.DEMOGRAPHICS.questions = Qs(dem),
                     !.MAIN_SECTION.sub_sections =
                         [k \in 1..Len(subs) |-> [subs[k] EXCEPT !.questions = Qs(main[k])]]],
           st.results \o Res(scr) \o Res(dem)
                      \o Flatten([k \in 1..Len(subs) |-> Res(main[k])]))

ArtefactIds(survey) ==
    {survey.STUDY_METADATA.artefacts[i].artefact_id : i \in DOMAIN survey.STUDY_METADATA.artefacts}

-----------------------------------------------------------------------------
(* CORE_001 stimulus_display_has_artefact *)

CheckStimulusDisplayArtefacts(st) ==
    LET arts == st.survey.STUDY_METADATA.artefacts
        ids  == ArtefactIds(st.survey)
        NoArtefacts(q, sec, idx) ==
            [q |-> q,
             res |-> IF q.question_type = "stimulus_display"
                     THEN <<Result("CORE_001", "error", q.question_id, sec)>>
                     ELSE <<>>]
        WithArtefacts(q, sec, idx) ==
            IF q.question_type = "stimulus_display"
               /\ (~TruthyStr(q.displays_artefact) \/ q.displays_artefact \notin ids)
            THEN IF idx < 0
                 THEN [q |-> q, res |-> <<Result("CORE_001", "error", q.question_id, sec)>>]
                 ELSE IF idx < Len(arts)
                      THEN [q |-> [q EXCEPT !.displays_artefact = arts[idx + 1].artefact_id],
                            res |-> <<Result("CORE_001", "auto_fix", q.question_id, sec)>>]
                      ELSE [q |-> q, res |-> <<Result("CORE_001", "error", q.question_id, sec)>>]
            ELSE [q |-> q, res |-> <<>>]
    IN  IF arts = <<>>
        THEN ForEachQuestion(st, NoArtefacts)
        ELSE ForEachQuestion(st, WithArtefacts)

-----------------------------------------------------------------------------
(* CORE_002 question_type_field_compatibility *)

\* rows/columns forced to None by the stimulus_display and ranking branches
NullRowsColumns(q) ==
    [q EXCEPT !.rows = IF GetOrNone(q.rows) # None THEN None ELSE @,
              !.columns = IF GetOrNone(q.columns) # None THEN None ELSE @]

ValidateQuestionFields(q, section, idx) ==
    LET qtype   == q.question_type
        qid     == q.question_id
        options == GetOrEmpty(q.options)
        rows    == GetOrNone(q.rows)
        columns == GetOrNone(q.columns)
        R(sev)  == <<Result("CORE_002", sev, qid, section)>>
        hasRC   == rows # None \/ columns # None
    IN  CASE qtype = "stimulus_display" ->
               LET q1 == IF Truthy(options) THEN [q EXCEPT !.options = <<>>] ELSE q
               IN  [q |-> IF hasRC THEN NullRowsColumns(q1) ELSE q1,
                    res |-> (IF Truthy(options) THEN R("auto_fix") ELSE <<>>)
                            \o (IF hasRC THEN R("auto_fix") ELSE <<>>)]
          [] qtype = "matrix" ->
               [q |-> IF Truthy(options) THEN [q EXCEPT !.options = <<>>] ELSE q,
                res |-> (IF ~Truthy(rows) \/ ~Truthy(columns) THEN R("error") ELSE <<>>)
                        \o (IF Truthy(options) THEN R("auto_fix") ELSE <<>>)]
          [] qtype = "open_ended" ->
               [q |-> IF Truthy(options) THEN [q EXCEPT !.options = <<>>] ELSE q,
                res |-> IF Truthy(options) THEN R("auto_fix") ELSE <<>>]
          [] qtype \in {"single_choice", "multiple_choice"} ->
               [q |-> q,
                res |-> IF ~Truthy(options) \/ Len(options) < 2 THEN R("error") ELSE <<>>]
          [] qtype = "scale" ->
               [q |-> q,
                res |-> IF ~Truthy(options) \/ Len(options) < 3 THEN R("error") ELSE <<>>]
          [] qtype = "ranking" ->
               [q |-> IF hasRC THEN NullRowsColumns(q) ELSE q,
                res |-> (IF ~Truthy(options) \/ Len(options) < 2 THEN R("error") ELSE <<>>)
                        \o (IF Len(options) > 7 THEN R("warning") ELSE <<>>)
                        \o (IF hasRC THEN R("auto_fix") ELSE <<>>)]
          [] OTHER -> [q |-> q, res |-> <<>>]

CheckQuestionTypeFieldCompatibility(st) == ForEachQuestion(st, ValidateQuestionFields)

-----------------------------------------------------------------------------
(* CORE_003 options_array_validity *)

\* opt and opt.strip(): the empty string and the blank string are dropped
Blank(opt) == opt \in {"", " "}

RECURSIVE Dedupe(_, _)
Dedupe(s, seen) ==
    IF s = <<>> THEN <<>>
    ELSE IF Head(s) \in seen THEN Dedupe(Tail(s), seen)
    ELSE <<Head(s)>> \o Dedupe(Tail(s), seen \cup {Head(s)})

CleanOptions(options) == Dedupe(SelectSeq(options, LAMBDA o : ~Blank(o)), {})

ValidateOptions(q, section, idx) ==
    LET options == GetOrEmpty(q.options)
        deduped == CleanOptions(options)
    IN  IF ~Truthy(options) THEN [q |-> q, res |-> <<>>]
        ELSE IF Len(deduped) < Len(options)
        THEN [q |-> [q EXCEPT !.options = deduped],
              res |-> <<Result("CORE_003", "auto_fix", q.question_id, section)>>]
        ELSE [q |-> q, res |-> <<>>]

CheckOptionsArrays(st) == ForEachQuestion(st, ValidateOptions)

-----------------------------------------------------------------------------
(* Flat views of the survey *)

\* Every question with its section, in the order the core checks walk them:
\* SCREENER, DEMOGRAPHICS, then the MAIN_SECTION subsections.
QuestionsCoreOrder(survey) ==
    LET subs == survey.MAIN_SECTION.sub_sections
        Tag(qs, sec) == [i \in 1..Len(qs) |-> [q |-> qs[i], sec |-> sec]]
    IN  Tag(survey.SCREENER.questions, "SCREENER")
        \o Tag(survey.DEMOGRAPHICS.questions, "DEMOGRAPHICS")
        \o Flatten([k \in 1..Len(subs) |-> Tag(subs[k].questions, subs[k].subsection_id)])

AllQuestionIds(survey) ==
    {QuestionsCoreOrder(survey)[i].q.question_id : i \in DOMAIN QuestionsCoreOrder(survey)}

-----------------------------------------------------------------------------
(* CORE_004 question_id_uniqueness *)

CheckQuestionIdUniqueness(st) ==
    LET all == QuestionsCoreOrder(st.survey)
        IsDup(i) == \E j \in 1..(i - 1) : all[j].q.question_id = all[i].q.question_id
        dups == SelectIdx([i \in 1..Len(all) |-> i], IsDup)
    IN  St(st.survey,
           st.results \o [k \in 1..Len(dups) |->
               Result("CORE_004", "error", all[dups[k]].q.question_id, all[dups[k]].sec)])

-----------------------------------------------------------------------------
(* CORE_005 screener_prefer_not_to_say *)

PreferNotToSay == "Prefer not to say"

\* A match of the text as it is written, with its capitals and single blanks
MatchesAsWritten(opt) == opt = "Prefer not to say"

\* re.search(r"prefer\s+not\s+to\s+say", opt, re.IGNORECASE) on the modelled options
MatchesPreferNotToSay(opt) ==
    opt \in {PreferNotToSay, "prefer not to say", "PREFER NOT TO SAY",
             "I would prefer  not to say"}

AppendPreferNotToSay(options) == Append(options, PreferNotToSay)

CheckScreenerPreferNotToSay(st) ==
    LET qs == st.survey.SCREENER.questions
        Fix(q) ==
            LET options == GetOrEmpty(q.options)
            IN  IF ~Truthy(options) THEN [q |-> q, res |-> <<>>]
                ELSE IF \E i \in DOMAIN options : MatchesPreferNotToSay(options[i])
                THEN [q |-> q, res |-> <<>>]
                ELSE [q |-> [q EXCEPT !.options = AppendPreferNotToSay(options)],
                      res |-> <<Result("CORE_005", "auto_fix", q.question_id, "SCREENER")>>]
        m == [i \in 1..Len(qs) |-> Fix(qs[i])]
    IN  St([st.survey EXCEPT !.SCREENER.questions = [i \in 1..Len(qs) |-> m[i].q]],
           st.results \o Flatten([i \in 1..Len(qs) |-> m[i].res]))

-----------------------------------------------------------------------------
(* CORE_006 demographics_placement *)

\* survey.keys is list(self.survey.keys()): the top-level keys in document order
IndexOf(s, x) == CHOOSE i \in DOMAIN s : s[i] = x /\ \A j \in 1..(i - 1) : s[j] # x

CheckDemographicsPlacement(st) ==
    LET keys == st.survey.keys
    IN  IF "DEMOGRAPHICS" \notin Range(keys)
        THEN St(st.survey, Append(st.results, Result("CORE_006", "warning", NoneStr, NoneStr)))
        ELSE IF "MAIN_SECTION" \in Range(keys)
                /\ IndexOf(keys, "DEMOGRAPHICS") < IndexOf(keys, "MAIN_SECTION")
        THEN St(st.survey, Append(st.results, Result("CORE_006", "error", NoneStr, "DEMOGRAPHICS")))
        ELSE st

-----------------------------------------------------------------------------
(* CORE_007 routing_rule_references *)

\* A routing rule carries, next to rule_id, what the two re.findall calls of the
\* check extract from its free text: condition_qids (the tokens of the form
\* LETTERS_Q<digits> in the condition) and action_sections (the MS<digits>,
\* SCREENER, DEMOGRAPHICS and MAIN_SECTION tokens of the action).
CheckRoutingRuleReferences(st) ==
    LET rules   == st.survey.FLOW.routing_rules
        qids    == AllQuestionIds(st.survey)
        subs    == st.survey.MAIN_SECTION.sub_sections
        subIds  == {subs[k].subsection_id : k \in DOMAIN subs}
        IsMS(ref) == ref \notin {"SCREENER", "DEMOGRAPHICS", "MAIN_SECTION"}
        E == Result("CORE_007", "error", NoneStr, "FLOW")
        OfRule(r) ==
            [i \in 1..Len(SelectSeq(r.condition_qids, LAMBDA x : x \notin qids)) |-> E]
            \o [i \in 1..Len(SelectSeq(r.action_sections,
                                       LAMBDA x : IsMS(x) /\ x \notin subIds)) |-> E]
    IN  St(st.survey, st.results \o Flatten([i \in 1..Len(rules) |-> OfRule(rules[i])]))

-----------------------------------------------------------------------------
(* CORE_008 scale_format *)

\* any(word in first for word in negative_words) on the modelled options
NegativeOption(opt) ==
    opt \in {"No", PreferNotToSay, "prefer not to say", "PREFER NOT TO SAY",
             "I would prefer  not to say", "Very unlikely", "Unlikely",
             "0 - Not at all likely"}
\* any(word in last for word in positive_words) on the modelled options
PositiveOption(opt) ==
    opt \in {"Very unlikely", "Unlikely", "Likely", "Very likely", "0 - Not at all likely",
             "10 - Extremely likely"}

ValidateScale(q, section, idx) ==
    LET options == GetOrEmpty(q.options)
        W == <<Result("CORE_008", "warning", q.question_id, section)>>
    IN  [q |-> q,
         res |-> IF q.question_type # "scale" \/ ~Truthy(options) THEN <<>>
                 ELSE (IF Len(options) \notin {5, 7} THEN W ELSE <<>>)
                      \o (IF Len(options) >= 2
                             /\ ~(NegativeOption(options[1]) /\ PositiveOption(options[Len(options)]))
                          THEN W ELSE <<>>)]

CheckScaleFormat(st) == ForEachQuestion(st, ValidateScale)

-----------------------------------------------------------------------------
(* CORE_009 quota_alignment *)

\* A quota group is [kind |-> "str", label] for a bare string and
\* [kind |-> "obj", label, ...] for an object; quota_groups is <<>> when the key
\* is absent, None or an empty list (the code only tests it for truthiness).
\* A brief quota is
\* [attribute, type, groups], its groups [label, min, max].  The two regional
\* attributes whose labels the check also maps with a country prefix are not
\* among the modelled briefs.
\* brief_quotas is a dict keyed by attribute: the last quota of an attribute wins
BriefQuota(b, attr) ==
    CHOOSE i \in DOMAIN b.quotas :
        b.quotas[i].attribute = attr /\ \A j \in (i + 1)..Len(b.quotas) : b.quotas[j].attribute # attr
BriefAttributes(b) == {b.quotas[i].attribute : i \in DOMAIN b.quotas}

\* all_brief_groups: label -> group, a later quota overwriting an earlier one
BriefGroups(b) == Flatten([i \in 1..Len(b.quotas) |-> b.quotas[i].groups])
BriefGroupOf(b, label) ==
    LET gs == BriefGroups(b)
        i  == CHOOSE i \in DOMAIN gs :
                  gs[i].label = label /\ \A j \in (i + 1)..Len(gs) : gs[j].label # label
    IN  gs[i]

NormaliseQuotaGroups(b, groups) ==
    [i \in 1..Len(groups) |->
        IF \E j \in DOMAIN BriefGroups(b) : BriefGroups(b)[j].label = groups[i].label
        THEN [kind |-> "obj", label |-> groups[i].label,
              min |-> BriefGroupOf(b, groups[i].label).min,
              max |-> BriefGroupOf(b, groups[i].label).max]
        ELSE [kind |-> "obj", label |-> groups[i].label]]

CheckQuotaAlignment(st, b) ==
    LET qs == st.survey.SCREENER.questions
        Fix(q) ==
            LET groups    == q.quota_groups
                normalise == groups # <<>> /\ groups[1].kind = "str"
                q1 == IF normalise
                      THEN [q EXCEPT !.quota_groups = NormaliseQuotaGroups(b, groups)]
                      ELSE q
                known    == q.quota_attribute \in BriefAttributes(b)
                expected == b.quotas[BriefQuota(b, q.quota_attribute)].type
                R(sev)   == <<Result("CORE_009", sev, q.question_id, "SCREENER")>>
            IN  IF ~TruthyStr(q.quota_attribute) THEN [q |-> q, res |-> <<>>]
                ELSE IF ~known
                THEN [q |-> q1, res |-> (IF normalise THEN R("auto_fix") ELSE <<>>) \o R("warning")]
                ELSE IF q.quota_type # expected
                THEN [q |-> [q1 EXCEPT !.quota_type = expected],
                      res |-> (IF normalise THEN R("auto_fix") ELSE <<>>) \o R("auto_fix")]
                ELSE [q |-> q1, res |-> IF normalise THEN R("auto_fix") ELSE <<>>]
        m == [i \in 1..Len(qs) |-> Fix(qs[i])]
        used == {a \in {qs[i].quota_attribute : i \in DOMAIN qs} : TruthyStr(a)}
        missing == SelectSeq(b.quotas, LAMBDA bq : bq.attribute \notin used)
    IN  St([st.survey EXCEPT !.SCREENER.questions = [i \in 1..Len(qs) |-> m[i].q]],
           st.results \o Flatten([i \in 1..Len(qs) |-> m[i].res])
                      \o [i \in 1..Len(missing) |->
                             Result("CORE_009", "warning", NoneStr, "SCREENER")])

-----------------------------------------------------------------------------
(* CORE_010 matrix_consistency *)

\* The column-label length warning compares word counts of the labels; the
\* modelled labels are single words, for which it never fires.
ValidateMatrix(q, section, idx) ==
    LET rows    == GetOrEmpty(q.rows)
        columns == GetOrEmpty(q.columns)
        E == <<Result("CORE_010", "error", q.question_id, section)>>
    IN  [q |-> q,
         res |-> IF q.question_type # "matrix" THEN <<>>
                 ELSE (IF ~Truthy(rows) \/ Len(rows) < 2 THEN E ELSE <<>>)
                      \o (IF ~Truthy(columns) \/ Len(columns) < 2 THEN E ELSE <<>>)]

CheckMatrixConsistency(st) == ForEachQuestion(st, ValidateMatrix)

-----------------------------------------------------------------------------
(* Representative question texts and the keyword matchers over them *)

TextPlain == "What is your age group?"
TextRank == "Please rank these from 1 to 3"
TextTooCheap == "At what price would it be too cheap?"
TextBargain == "At what price would it be a bargain?"
TextExpensive == "At what price is it getting expensive?"
TextTooExpensive == "At what price would it be too expensive?"
TextNps == "How likely are you to recommend us to a friend?"
TextWhy == "Why did you give that score?"
TextCsat == "How satisfied are you with our service?"

\* any(kw in qtext.lower() for kw in ranking_instruction_keywords)
HasRankingInstruction(text) == text \in {TextRank}
\* any(phrase in qtext.lower() for phrase in [...]) of _validate_ranking
HasRankingScaleReference(text) == text \in {TextRank}

-----------------------------------------------------------------------------
(* CORE_011 ranking_format *)

\* Check 3 (an option of more than 20 words) never fires on the modelled options.
ValidateRanking(q, section, idx) ==
    LET options == GetOrEmpty(q.options)
        R(sev) == <<Result("CORE_011", sev, q.question_id, section)>>
    IN  [q |-> q,
         res |-> IF q.question_type # "ranking" THEN <<>>
                 ELSE (IF ~HasRankingInstruction(q.question_text) THEN R("warning") ELSE <<>>)
                      \o (IF ~HasRankingScaleReference(q.question_text) THEN R("warning") ELSE <<>>)
                      \o (IF Len(options) > 5 THEN R("advisory") ELSE <<>>)]

CheckRankingFormat(st) == ForEachQuestion(st, ValidateRanking)

RunCoreValidators(st, b) ==
    LET s1  == Then(st, CheckStimulusDisplayArtefacts)
        s2  == Then(s1, CheckQuestionTypeFieldCompatibility)
        s3  == Then(s2, CheckOptionsArrays)
        s4  == Then(s3, CheckQuestionIdUniqueness)
        s5  == Then(s4, CheckScreenerPreferNotToSay)
        s6  == Then(s5, CheckDemographicsPlacement)
        s7  == Then(s6, CheckRoutingRuleReferences)
        s8  == Then(s7, CheckScaleFormat)
        s9  == Then(s8, LAMBDA s : CheckQuotaAlignment(s, b))
        s10 == Then(s9, CheckMatrixConsistency)
    IN  Then(s10, CheckRankingFormat)

-----------------------------------------------------------------------------
(* SEQ_001 stimulus_before_evaluation *)

\* One subsection's question list: the first stimulus_display that is not at
\* position 0 is removed (list.remove, by equality) and inserted at position 0.
RelocateStimulus(questions) ==
    LET stim  == SelectIdx(questions, LAMBDA q : q.question_type = "stimulus_display")
        late  == SelectSeq(stim, LAMBDA i : i # 1)
    IN  IF questions = <<>> \/ stim = <<>> \/ late = <<>>
        THEN [qs |-> questions, moved |-> <<>>]
        ELSE [qs |-> InsertAt(RemoveFirst(questions, questions[late[1]]), 0, questions[late[1]]),
              moved |-> <<questions[late[1]].question_id>>]

CheckStimulusBeforeEvaluation(st) ==
    LET subs == st.survey.MAIN_SECTION.sub_sections
        m == [k \in 1..Len(subs) |-> RelocateStimulus(subs[k].questions)]
    IN  St([st.survey EXCEPT !.MAIN_SECTION.sub_sections =
                [k \in 1..Len(subs) |-> [subs[k] EXCEPT !.questions = m[k].qs]]],
           st.results \o Flatten([k \in 1..Len(subs) |->
                [i \in 1..Len(m[k].moved) |->
                    Result("SEQ_001", "auto_fix", m[k].moved[i], subs[k].subsection_id)]]))

-----------------------------------------------------------------------------
(* SEQ_002, SEQ_003, SEQ_004: warnings on the relative order of keyword matches *)

\* _text_contains_any(qtext, <keywords>) on the representative texts
IsUnaidedText(text) == FALSE
IsAidedText(text) == FALSE
IsComprehensionText(text) == FALSE
IsPersuasionText(text) == text \in {TextNps}
IsDiagnosticText(text) == text \in {TextWhy}

\* Per subsection: a warning on the first B-question when it precedes the first A-question.
OrderWarnings(st, check, IsA(_), IsB(_)) ==
    LET subs == st.survey.MAIN_SECTION.sub_sections
        Of(sub) ==
            LET a == SelectIdx(sub.questions, IsA)
                b == SelectIdx(sub.questions, IsB)
            IN  IF a # <<>> /\ b # <<>> /\ b[1] < a[1]
                THEN <<Result(check, "warning", sub.questions[b[1]].question_id, sub.subsection_id)>>
                ELSE <<>>
    IN  St(st.survey, st.results \o Flatten([k \in 1..Len(subs) |-> Of(subs[k])]))

CheckUnaidedBeforeAided(st) ==
    OrderWarnings(st, "SEQ_002",
                  LAMBDA q : IsUnaidedText(q.question_text),
                  LAMBDA q : IsAidedText(q.question_text) /\ Truthy(q.options))

CheckComprehensionBeforePersuasion(st) ==
    OrderWarnings(st, "SEQ_003",
                  LAMBDA q : IsComprehensionText(q.question_text),
                  LAMBDA q : IsPersuasionText(q.question_text))

CheckOpenEndDiagnosticsAfterClosed(st) ==
    LET subs == st.survey.MAIN_SECTION.sub_sections
        Of(sub) ==
            LET scale == SelectIdx(sub.questions, LAMBDA q : q.question_type = "scale")
                diag  == SelectIdx(sub.questions,
                             LAMBDA q : q.question_type = "open_ended"
                                        /\ IsDiagnosticText(q.question_text))
                early == IF scale = <<>> THEN <<>> ELSE SelectSeq(diag, LAMBDA i : i < scale[1])
            IN  [i \in 1..Len(early) |->
                    Result("SEQ_004", "warning", sub.questions[early[i]].question_id,
                           sub.subsection_id)]
    IN  St(st.survey, st.results \o Flatten([k \in 1..Len(subs) |-> Of(subs[k])]))

RunSequenceValidators(st) ==
    LET s1 == Then(st, CheckStimulusBeforeEvaluation)
        s2 == Then(s1, CheckUnaidedBeforeAided)
        s3 == Then(s2, CheckComprehensionBeforePersuasion)
    IN  Then(s3, CheckOpenEndDiagnosticsAfterClosed)

-----------------------------------------------------------------------------
(* METH_001 van_westendorp (skill "pricing-study") *)

\* The price point a question text is classified as, "" for none.
PriceType(text) ==
    CASE text = TextTooCheap -> "too_cheap"
      [] text = TextBargain -> "bargain"
      [] text = TextExpensive -> "expensive"
      [] text = TextTooExpensive -> "too_expensive"
      [] OTHER -> ""

CorrectOrder == <<"too_cheap", "bargain", "expensive", "too_expensive">>

\* "price" and "validation" in FLOW.description, or a rule condition comparing a
\* price; the modelled rule conditions never mention a price.
HasPriceValidation(flow) == flow.description = "price validation enforced"

RECURSIVE RemoveAll(_, _)
RemoveAll(s, xs) == IF xs = <<>> THEN s ELSE RemoveAll(RemoveFirst(s, Head(xs)), Tail(xs))

RECURSIVE InsertAll(_, _, _)
InsertAll(s, pos, xs) ==
    IF xs = <<>> THEN s ELSE InsertAll(InsertAt(s, pos, Head(xs)), pos + 1, Tail(xs))

\* The Van Westendorp questions of one subsection, as indices in list order.
VwIndices(questions) == SelectIdx(questions, LAMBDA q : PriceType(q.question_text) # "")

VwOutOfOrder(questions) ==
    LET vw == VwIndices(questions)
    IN  Len(vw) >= 4
        /\ [i \in 1..Len(vw) |-> PriceType(questions[vw[i]].question_text)] # CorrectOrder

\* Removes every Van Westendorp question, then inserts the first one of each
\* price type, in the correct order, from the position of the first on.
ReorderVanWestendorp(questions) ==
    LET vw == VwIndices(questions)
        objs == [i \in 1..Len(vw) |-> questions[vw[i]]]
        FirstOf(t) == SelectSeq(objs, LAMBDA q : PriceType(q.question_text) = t)
        ordered == Flatten([k \in 1..4 |->
                      IF FirstOf(CorrectOrder[k]) = <<>> THEN <<>>
                      ELSE <<FirstOf(CorrectOrder[k])[1]>>])
    IN  InsertAll(RemoveAll(questions, objs), vw[1] - 1, ordered)

\* Subsection ids are unique in the modelled surveys, so the check's grouping
\* of the questions by subsection_id is the grouping by subsection.
CheckVanWestendorp(st) ==
    LET subs  == st.survey.MAIN_SECTION.sub_sections
        types == UNION {{PriceType(subs[k].questions[i].question_text) :
                            i \in DOMAIN subs[k].questions} : k \in DOMAIN subs} \ {""}
        withVw == SelectIdx(subs, LAMBDA sub : VwIndices(sub.questions) # <<>>)
        Of(sub) ==
            LET vw == VwIndices(sub.questions)
                notOpen == SelectSeq(vw, LAMBDA i : sub.questions[i].question_type # "open_ended")
            IN  IF Len(vw) < 4 THEN <<>>
                ELSE (IF VwOutOfOrder(sub.questions)
                      THEN <<Result("METH_001", "auto_fix", NoneStr, sub.subsection_id)>>
                      ELSE <<>>)
                     \o [i \in 1..Len(notOpen) |->
                            Result("METH_001", "warning",
                                   sub.questions[notOpen[i]].question_id, sub.subsection_id)]
    IN  IF types = {} THEN st
        ELSE IF types # Range(CorrectOrder)
        THEN St(st.survey, Append(st.results, Result("METH_001", "error", NoneStr, "MAIN_SECTION")))
        ELSE St([st.survey EXCEPT !.MAIN_SECTION.sub_sections =
                    [k \in 1..Len(subs) |->
                        IF VwOutOfOrder(subs[k].questions)
                        THEN [subs[k] EXCEPT !.questions = ReorderVanWestendorp(@)]
                        ELSE subs[k]]],
                st.results
                \o (IF Len(withVw) > 1
                    THEN <<Result("METH_001", "warning", NoneStr, "MAIN_SECTION")>> ELSE <<>>)
                \o Flatten([k \in 1..Len(subs) |-> Of(subs[k])])
                \o (IF ~HasPriceValidation(st.survey.FLOW)
                    THEN <<Result("METH_001", "warning", NoneStr, "FLOW")>> ELSE <<>>))

-----------------------------------------------------------------------------
(* METH_005 nps_csat (skill "nps-csat") *)

\* "recommend" and one of "friend", "colleague", "someone you know" in the
\* lowered question text
IsNpsText(text) == text \in {TextNps}
\* "why" or "reason" in the lowered question text
IsWhyText(text) == text \in {TextWhy}
\* "how satisfied" or "satisfaction" in the lowered question text
IsCsatText(text) == text \in {TextCsat}
\* "recommend" and "friend", or "satisfied", in the lowered question text
IsNpsOrCsatText(text) == text \in {TextNps, TextCsat}

\* "0" or "not at all" in the lowered first option
HasZeroStart(opt) == opt \in {"0", "10", "0 - Not at all likely", "10 - Extremely likely"}
\* "10" or "extremely" in the lowered last option
HasTenEnd(opt) == opt \in {"10 - Extremely likely", "10"}

NpsPoints == 11     \* options of an NPS question
CsatPoints == 5     \* options of a CSAT question

\* The checks of one NPS question, at index i of its subsection: the scale of
\* 11 points or else its endpoints, then the open-ended follow-up within the
\* next two questions.  list.index finds the first question equal to it.
\* Subsection ids are unique in the modelled surveys.
CheckNpsQuestion(sub, i) ==
    LET q == sub.questions[i]
        options == GetOrEmpty(q.options)
        R(sev) == <<Result("METH_005", sev, q.question_id, sub.subsection_id)>>
        idx == CHOOSE j \in 1..i : sub.questions[j] = q
                                   /\ \A o \in 1..(j - 1) : sub.questions[o] # q
        followed ==
            \E j \in (idx + 1)..(idx + 2) :
                /\ j <= Len(sub.questions)
                /\ sub.questions[j].question_type = "open_ended"
                /\ IsWhyText(sub.questions[j].question_text)
    IN  (IF Len(options) # NpsPoints THEN R("error")
         ELSE IF ~(HasZeroStart(options[1]) /\ HasTenEnd(options[NpsPoints]))
         THEN R("warning") ELSE <<>>)
        \o (IF ~followed THEN R("warning") ELSE <<>>)

CheckNpsCsat(st) ==
    LET subs == st.survey.MAIN_SECTION.sub_sections
        dem  == st.survey.DEMOGRAPHICS.questions
        NpsOf(sub) == SelectIdx(sub.questions, LAMBDA q : IsNpsText(q.question_text))
        CsatOf(sub) == SelectIdx(sub.questions,
                           LAMBDA q : IsCsatText(q.question_text) /\ q.question_type = "scale")
        nps == Flatten([k \in 1..Len(subs) |->
                   Flatten([n \in 1..Len(NpsOf(subs[k])) |->
                       CheckNpsQuestion(subs[k], NpsOf(subs[k])[n])])])
        csat == Flatten([k \in 1..Len(subs) |->
                    Flatten([n \in 1..Len(CsatOf(subs[k])) |->
                        LET q == subs[k].questions[CsatOf(subs[k])[n]]
                        IN  IF Len(GetOrEmpty(q.options)) # CsatPoints
                            THEN <<Result("METH_005", "warning", q.question_id,
                                          subs[k].subsection_id)>>
                            ELSE <<>>])])
        any == \E k \in DOMAIN subs : NpsOf(subs[k]) # <<>> \/ CsatOf(subs[k]) # <<>>
        placed == IF any
                  THEN Flatten([i \in 1..Len(dem) |->
                           IF IsNpsOrCsatText(dem[i].question_text)
                           THEN <<Result("METH_005", "warning", dem[i].question_id,
                                         "DEMOGRAPHICS")>>
                           ELSE <<>>])
                  ELSE <<>>
    IN  St(st.survey, st.results \o nps \o csat \o placed)

\* Only the checks of the modelled skills are present; a brief lists no other skill.
RunMethodologyValidators(st, b) ==
    LET s1 == IF "pricing-study" \in b.skills THEN Then(st, CheckVanWestendorp) ELSE st
    IN  IF "nps-csat" \in b.skills THEN Then(s1, CheckNpsCsat) ELSE s1

-----------------------------------------------------------------------------
(* V2_001..V2_004 optional sections and V2 question fields *)

\* self.survey.get(<section>) is truthy: the key is present (a present optional
\* section is a non-empty dict in the modelled surveys).
HasSection(survey, key) == key \in Range(survey.keys)

CheckSampleRequirementsSection(st) ==
    LET sr == st.survey.SAMPLE_REQUIREMENTS
        W  == <<Result("V2_001", "warning", NoneStr, "SAMPLE_REQUIREMENTS")>>
    IN  IF ~HasSection(st.survey, "SAMPLE_REQUIREMENTS") THEN st
        ELSE St(st.survey, st.results
                \o (IF sr.total_sample = 0 THEN W ELSE <<>>)
                \o (IF sr.qualification_criteria = <<>> THEN W ELSE <<>>))

CheckProgrammingSpecificationsSection(st) ==
    LET ps == st.survey.PROGRAMMING_SPECIFICATIONS
        W  == <<Result("V2_002", "warning", NoneStr, "PROGRAMMING_SPECIFICATIONS")>>
    IN  IF ~HasSection(st.survey, "PROGRAMMING_SPECIFICATIONS") THEN st
        ELSE St(st.survey, st.results
                \o (IF ps.loi_breakdown \ {"SCREENER", "MAIN_SECTION", "DEMOGRAPHICS"} # {}
                    THEN W ELSE <<>>)
                \o (IF ps.quality_controls = <<>> THEN W ELSE <<>>))

CheckAnalysisPlanSection(st) ==
    LET ap == st.survey.ANALYSIS_PLAN
        W  == <<Result("V2_003", "warning", NoneStr, "ANALYSIS_PLAN")>>
    IN  IF ~HasSection(st.survey, "ANALYSIS_PLAN") THEN st
        ELSE St(st.survey, st.results
                \o (IF ap.primary_analyses = <<>> THEN W ELSE <<>>)
                \o (IF ap.deliverables = <<>> /\ ap.strategic_outputs = <<>> THEN W ELSE <<>>))

\* required is AbsentStr when the key is not in the question, else "true" or "false"
ValidateV2QuestionFields(q, section, idx) ==
    LET clear == q.question_type = "numeric_input" /\ Truthy(q.options)
        fill  == q.required = AbsentStr
        q1 == IF clear THEN [q EXCEPT !.options = <<>>] ELSE q
        F  == <<Result("V2_004", "auto_fix", q.question_id, section)>>
    IN  [q |-> IF fill THEN [q1 EXCEPT !.required = "true"] ELSE q1,
         res |-> (IF clear THEN F ELSE <<>>) \o (IF fill THEN F ELSE <<>>)]

CheckQuestionV2Fields(st) == ForEachQuestion(st, ValidateV2QuestionFields)

RunOptionalSectionValidators(st) ==
    LET s1 == Then(st, CheckSampleRequirementsSection)
        s2 == Then(s1, CheckProgrammingSpecificationsSection)
        s3 == Then(s2, CheckAnalysisPlanSection)
    IN  Then(s3, CheckQuestionV2Fields)

-----------------------------------------------------------------------------
(* ADV_001..ADV_004 quality advisories *)

RunQualityAdvisories(st) ==
    LET s    == st.survey
        all  == QuestionsCoreOrder(s)
        subs == s.MAIN_SECTION.sub_sections
        A(check, sec) == <<Result(check, "advisory", NoneStr, sec)>>
        Missing(key) == IF ~HasSection(s, key) THEN A("ADV_001", "Root") ELSE <<>>
    IN  St(s, st.results
              \o Missing("SAMPLE_REQUIREMENTS")
              \o Missing("PROGRAMMING_SPECIFICATIONS")
              \o Missing("ANALYSIS_PLAN")
              \o (IF all # <<>> /\ \A i \in DOMAIN all : ~TruthyStr(all[i].q.notes)
                  THEN A("ADV_002", "Questions") ELSE <<>>)
              \o (IF subs # <<>> /\ \A k \in DOMAIN subs : ~TruthyStr(subs[k].purpose)
                  THEN A("ADV_003", "MAIN_SECTION") ELSE <<>>)
              \o (IF s.STUDY_METADATA.estimated_loi_minutes = 0
                  THEN A("ADV_004", "STUDY_METADATA") ELSE <<>>))

-----------------------------------------------------------------------------
(* SurveyValidator *)

\* Working on the caller's own object instead of a copy of it
SameObject(survey) == [value |-> survey, shared |-> TRUE]

\* copy.deepcopy(survey): an equal value that shares no object with its argument.
\* A survey value is held with the flag `shared`: whether the object is the
\* caller's own, so that a mutation of it is a mutation of the caller's survey.
DeepCopy(survey) == [value |-> survey, shared |-> FALSE]

\* SurveyValidator.__init__: self.survey
ValidatorInit(survey) == DeepCopy(survey)

\* SurveyValidator.validate on self.survey: the patched survey and the results
Validate(survey, b) ==
    LET s1 == Then(St(survey, <<>>), LAMBDA s : RunCoreValidators(s, b))
        s2 == Then(s1, RunSequenceValidators)
        s3 == Then(s2, LAMBDA s : RunMethodologyValidators(s, b))
        s4 == Then(s3, RunOptionalSectionValidators)
    IN  Then(s4, RunQualityAdvisories)

\* What the caller's survey object holds after a call that worked on `working`
\* and left it as `after`.
CallerAfter(before, working, after) == IF working.shared THEN after ELSE before

-----------------------------------------------------------------------------
(* render_survey.py: validate_and_normalise *)

RequiredTopLevelKeys ==
    <<"STUDY_METADATA", "SCREENER", "MAIN_SECTION", "DEMOGRAPHICS", "FLOW",
      "DIMENSION_COVERAGE_SUMMARY">>

AllowedQTypes ==
    {"single_choice", "multiple_choice", "scale", "matrix", "open_ended",
     "stimulus_display", "numeric_input", "ranking"}

\* q.get(key) of a string-valued key: an absent key reads as None
GetStr(x) == IF x = AbsentStr THEN NoneStr ELSE x

\* _fingerprint: the digest of error_code|json_path|question_id-or-empty, kept
\* as the triple that is hashed
Fingerprint(code, path, qid) == <<code, path, IF TruthyStr(qid) THEN qid ELSE "">>

\* add_issue: a ValidationIssue without its free-text message and fragment.
\* json_path is kept as the sequence of its segments; issue_id is given by the
\* position in the issue list (NumberIssues).
Issue(code, path, ref) ==
    [issue_id |-> 0,
     issue_fingerprint |-> Fingerprint(code, path, ref.question_id),
     error_code |-> code,
     json_path |-> path,
     question_id |-> ref.question_id,
     section |-> ref.section]

\* issue_counter: the k-th issue added carries ISSUE_k
NumberIssues(issues) == [i \in 1..Len(issues) |-> [issues[i] EXCEPT !.issue_id = i]]

Ref(section, qid) == [section |-> section, question_id |-> qid]

\* norm_question: the question as it is left, and the issues added for it
NormQuestion(q, path, ref) ==
    LET missing == SelectSeq(<<"question_id", "question_text", "question_type">>,
                             LAMBDA f : ~TruthyStr(q[f]))
        q1 == [q EXCEPT !.options = IF @ = Absent \/ @ = None THEN <<>> ELSE @,
                        !.rows = GetOrNone(@),
                        !.columns = GetOrNone(@),
                        !.display_logic = GetStr(@),
                        !.piping = GetStr(@),
                        !.required = IF @ = AbsentStr THEN "true" ELSE @,
                        !.notes = GetStr(@)]
        qtype == GetStr(q1.question_type)
        badType == qtype \notin AllowedQTypes
        notArray == q1.options = None
        q2 == IF notArray THEN [q1 EXCEPT !.options = <<>>] ELSE q1
        mustBeEmpty == qtype \in {"open_ended", "matrix", "numeric_input"} /\ q2.options # <<>>
        q3 == IF mustBeEmpty THEN [q2 EXCEPT !.options = <<>>] ELSE q2
        required == qtype \in {"single_choice", "multiple_choice", "scale", "ranking"}
                    /\ Len(q3.options) = 0
        matrixMissing == qtype = "matrix" /\ (~Truthy(q3.rows) \/ ~Truthy(q3.columns))
        q4 == IF qtype = "matrix"
              THEN IF matrixMissing
                   THEN [q3 EXCEPT !.rows = IF Truthy(@) THEN @ ELSE <<>>,
                                   !.columns = IF Truthy(@) THEN @ ELSE <<>>]
                   ELSE q3
              ELSE IF q3.rows # None \/ q3.columns # None
                   THEN [q3 EXCEPT !.rows = None, !.columns = None]
                   ELSE q3
    IN  [q |-> q4,
         issues |->
            [i \in 1..Len(missing) |->
                Issue("E_QUESTION_MISSING_REQUIRED", Append(path, missing[i]), ref)]
            \o (IF badType
                THEN <<Issue("E_QUESTION_BAD_TYPE", Append(path, "question_type"), ref)>>
                ELSE <<>>)
            \o (IF notArray
                THEN <<Issue("E_OPTIONS_NOT_ARRAY", Append(path, "options"), ref)>>
                ELSE <<>>)
            \o (IF mustBeEmpty
                THEN <<Issue("E_OPTIONS_MUST_BE_EMPTY", Append(path, "options"), ref)>>
                ELSE <<>>)
            \o (IF required
                THEN <<Issue("E_OPTIONS_REQUIRED", Append(path, "options"), ref)>>
                ELSE <<>>)
            \o (IF matrixMissing
                THEN <<Issue("E_MATRIX_MISSING_ROWS_COLS", path, ref)>>
                ELSE <<>>)]

\* A seen_qids that takes no id in
SeenForgets(seen, qid) == seen

\* seen_qids after a question with this id: the id is added unless it is in
\* the set
SeenAdd(seen, qid) == seen \cup {qid}

\* validate_questions_block from question i on (1-based): the questions as they
\* are left, the issues added, and seen_qids.  A questions block is an array of
\* objects in the modelled documents.
RECURSIVE ValidateQuestionsBlock(_, _, _, _, _)
ValidateQuestionsBlock(questions, i, basePath, section, seen) ==
    IF i > Len(questions) THEN [qs |-> <<>>, issues |-> <<>>, seen |-> seen]
    ELSE LET qPath == Append(basePath, ToString(i - 1))
             ref   == Ref(section, GetStr(questions[i].question_id))
             Block(n) ==
                 LET qid == GetStr(n.q.question_id)
                     dup == IF qid \in seen
                            THEN <<Issue("E_DUPLICATE_QUESTION_ID",
                                         Append(qPath, "question_id"), ref)>>
                            ELSE <<>>
                     Join(rest) == [qs |-> <<n.q>> \o rest.qs,
                                    issues |-> n.issues \o dup \o rest.issues,
                                    seen |-> rest.seen]
                 IN  Then(ValidateQuestionsBlock(questions, i + 1, basePath, section,
                                                 SeenAdd(seen, qid)),
                          Join)
         IN  Then(NormQuestion(questions[i], qPath, ref), Block)

\* The MAIN_SECTION loop of validate_and_normalise from sub_section si on
\* (1-based): subsection_id checks, then the sub_section's questions block.
RECURSIVE ValidateSubSections(_, _, _, _)
ValidateSubSections(subs, si, seenSs, seen) ==
    IF si > Len(subs) THEN [subs |-> <<>>, issues |-> <<>>, seen |-> seen]
    ELSE LET ss     == subs[si]
             ssPath == <<"MAIN_SECTION", "sub_sections", ToString(si - 1)>>
             ssId   == GetStr(ss.subsection_id)
             ref    == Ref("MAIN_SECTION", NoneStr)
             idIssue ==
                 IF ~TruthyStr(ssId)
                 THEN <<Issue("E_SUBSECTION_MISSING_ID", Append(ssPath, "subsection_id"), ref)>>
                 ELSE IF ssId \in seenSs
                 THEN <<Issue("E_DUPLICATE_SUBSECTION_ID", Append(ssPath, "subsection_id"), ref)>>
                 ELSE <<>>
             Loop(blk) ==
                 LET Join(rest) == [subs |-> <<[ss EXCEPT !.questions = blk.qs]>> \o rest.subs,
                                    issues |-> idIssue \o blk.issues \o rest.issues,
                                    seen |-> rest.seen]
                 IN  Then(ValidateSubSections(subs, si + 1,
                                              IF TruthyStr(ssId) THEN seenSs \cup {ssId}
                                              ELSE seenSs,
                                              blk.seen),
                          Join)
         IN  Then(ValidateQuestionsBlock(ss.questions, 1, Append(ssPath, "questions"),
                                         "MAIN_SECTION", seen),
                  Loop)

\* A check of the top-level keys that stops at the first missing one
FirstMissingKey(s) ==
    LET missing == SelectSeq(RequiredTopLevelKeys, LAMBDA k : k \notin Range(s.keys))
    IN  IF missing = <<>> THEN <<>> ELSE <<missing[1]>>

\* The required top-level keys that are not in s, in the order of
\* REQUIRED_TOP_LEVEL_KEYS
MissingKeys(s) == SelectSeq(RequiredTopLevelKeys, LAMBDA k : k \notin Range(s.keys))

\* validate_and_normalise on the working copy s: the normalised survey and the
\* issue list.  FLOW.routing_rules and DIMENSION_COVERAGE_SUMMARY are arrays in
\* the modelled documents, so their two type issues are never added.
NormaliseCopy(s) ==
    LET missing == MissingKeys(s)
        scr  == ValidateQuestionsBlock(s.SCREENER.questions, 1, <<"SCREENER", "questions">>,
                                       "SCREENER", {})
        main == Then(scr.seen,
                     LAMBDA seen : ValidateSubSections(s.MAIN_SECTION.sub_sections, 1, {}, seen))
        dem  == Then(main.seen,
                     LAMBDA seen : ValidateQuestionsBlock(s.DEMOGRAPHICS.questions, 1,
                                       <<"DEMOGRAPHICS", "questions">>, "DEMOGRAPHICS",
                                       seen))
    IN  IF missing # <<>>
        THEN [survey |-> s,
              issues |-> NumberIssues([i \in 1..Len(missing) |->
                             Issue("E_TOPLEVEL_MISSING_KEY", <<missing[i]>>,
                                   Ref(missing[i], NoneStr))])]
        ELSE [survey |-> [s EXCEPT !.SCREENER.questions = scr.qs,
                                   !.MAIN_SECTION.sub_sections = main.subs,
                                   !.DEMOGRAPHICS.questions = dem.qs],
              issues |-> NumberIssues(scr.issues \o main.issues \o dem.issues)]

\* validate_and_normalise(survey): s = copy.deepcopy(survey), then the above
ValidateAndNormalise(survey) == NormaliseCopy(DeepCopy(survey).value)

-----------------------------------------------------------------------------
(* render_survey.py: render_ui_spec and build_static_assets *)

\* Every question in rendering order: SCREENER, the sub_sections, DEMOGRAPHICS
QuestionsRenderOrder(survey) ==
    LET subs == survey.MAIN_SECTION.sub_sections
    IN  survey.SCREENER.questions
        \o Flatten([k \in 1..Len(subs) |-> subs[k].questions])
        \o survey.DEMOGRAPHICS.questions

\* q_display's quota annotation reads g['label'] of every quota group: a group
\* that is a bare string raises TypeError
QuotaAnnotationRaises(q) ==
    TruthyStr(q.quota_attribute)
    /\ \E i \in DOMAIN q.quota_groups : q.quota_groups[i].kind = "str"

\* render_ui_spec: whether it raises, and (when it does not) the question ids
\* of the rendered section and subsection blocks, in order
RenderUiSpec(survey) ==
    LET qs == QuestionsRenderOrder(survey)
    IN  IF \E i \in DOMAIN qs : QuotaAnnotationRaises(qs[i])
        THEN [raised |-> TRUE, questions |-> <<>>]
        ELSE [raised |-> FALSE,
              questions |-> [i \in 1..Len(qs) |-> GetStr(qs[i].question_id)]]

NoAssets == [status |-> "none", normalised_survey |-> <<>>, issues |-> <<>>, ui_spec |-> <<>>]

\* build_static_assets: status "returned" with the returned dict (ui_spec is
\* <<>> for None and <<spec>> for a rendered spec), or "raised" when
\* render_ui_spec raises and nothing is returned
BuildStaticAssets(survey) ==
    LET Assets(n) ==
            IF n.issues # <<>>
            THEN [status |-> "returned", normalised_survey |-> <<n.survey>>,
                  issues |-> n.issues, ui_spec |-> <<>>]
            ELSE LET r == RenderUiSpec(n.survey)
                 IN  IF r.raised
                     THEN [status |-> "raised", normalised_survey |-> <<>>,
                           issues |-> <<>>, ui_spec |-> <<>>]
                     ELSE [status |-> "returned", normalised_survey |-> <<n.survey>>,
                           issues |-> n.issues, ui_spec |-> <<r>>]
    IN  Then(ValidateAndNormalise(survey), Assets)

-----------------------------------------------------------------------------
(* The documents and briefs the operations are run on *)

MaxPasses == 2      \* validation passes chained on one document
MaxOpts == 2        \* options of a probe question
MaxMainQ == 4       \* questions of the subsection of a structure document

\* A question dict with every optional key absent
Q(id, type, text, options) ==
    [question_id |-> id, question_type |-> type, question_text |-> text,
     options |-> options, rows |-> Absent, columns |-> Absent,
     displays_artefact |-> AbsentStr, required |-> "true", notes |-> AbsentStr,
     quota_attribute |-> AbsentStr, quota_type |-> AbsentStr, quota_groups |-> <<>>,
     display_logic |-> AbsentStr, piping |-> AbsentStr]

SubSection(id, questions) == [subsection_id |-> id, purpose |-> AbsentStr, questions |-> questions]

\* A survey document: `keys` lists the top-level keys present, in document
\* order; the value of an absent key is never read (its questions are empty).
Survey(keys, artefacts, scr, subs, dem, rules) ==
    [keys |-> keys,
     STUDY_METADATA |-> [artefacts |-> artefacts, estimated_loi_minutes |-> 0],
     SCREENER |-> [questions |-> scr],
     MAIN_SECTION |-> [sub_sections |-> subs],
     DEMOGRAPHICS |-> [questions |-> dem],
     FLOW |-> [description |-> "", routing_rules |-> rules],
     SAMPLE_REQUIREMENTS |-> [total_sample |-> 0, qualification_criteria |-> <<>>],
     PROGRAMMING_SPECIFICATIONS |-> [loi_breakdown |-> {}, quality_controls |-> <<>>],
     ANALYSIS_PLAN |-> [primary_analyses |-> <<>>, deliverables |-> <<>>,
                        strategic_outputs |-> <<>>]]

Artefacts == <<[artefact_id |-> "A1"]>>

NoBrief == [skills |-> {}, quotas |-> <<>>]
PricingBrief == [skills |-> {"pricing-study"}, quotas |-> <<>>]
QuotaBrief ==
    [skills |-> {},
     quotas |-> <<[attribute |-> "age", type |-> "hard",
                   groups |-> <<[label |-> "18-34", min |-> 100, max |-> 200]>>]>>]

Input(survey, b) == [survey |-> survey, brief |-> b]

\* One question in one section
InScreener(q) == Survey(RequiredTopLevelKeys, Artefacts, <<q>>, <<SubSection("MS1", <<>>)>>, <<>>, <<>>)
InMain(q) == Survey(RequiredTopLevelKeys, Artefacts, <<>>, <<SubSection("MS1", <<q>>)>>, <<>>, <<>>)
InDemographics(q) == Survey(RequiredTopLevelKeys, Artefacts, <<>>, <<SubSection("MS1", <<>>)>>, <<q>>, <<>>)

\* Probe family: a single question of every type, with every option list of up
\* to MaxOpts options, in the screener and in a main subsection.
OptionAlphabet == {"", "Yes", "No", PreferNotToSay}
OptionLists == UNION {[1..n -> OptionAlphabet] : n \in 0..MaxOpts}
ProbeTypes == AllowedQTypes \cup {"likert"}
RowsColumns ==
    {<<Absent, Absent>>, <<None, None>>, <<<<"r1", "r2">>, <<"c1", "c2">>>>,
     <<<<"r1">>, Absent>>, <<<<>>, <<"c1", "c2">>>>}
Probes ==
    {[Q("Q1", t, TextPlain, o) EXCEPT !.rows = rc[1], !.columns = rc[2]] :
        t \in ProbeTypes, o \in OptionLists \cup {Absent}, rc \in RowsColumns}
ProbeInputs ==
    {Input(InScreener(q), NoBrief) : q \in Probes} \cup {Input(InMain(q), NoBrief) : q \in Probes}


\* Field family: single questions that vary the keys the probes keep fixed
\* (a missing or null key, the texts the keyword matchers react to).
FieldQuestions ==
    {[Q("Q1", "single_choice", TextPlain, <<"Yes", "No">>) EXCEPT !.required = AbsentStr],
     [Q("Q1", "numeric_input", TextPlain, <<"Yes">>) EXCEPT !.required = AbsentStr],
     [Q("Q1", "single_choice", TextPlain, <<"Yes", "No">>) EXCEPT !.notes = "why we ask"],
     [Q("Q1", "stimulus_display", TextPlain, <<>>) EXCEPT !.displays_artefact = "A1"],
     [Q("Q1", "stimulus_display", TextPlain, <<"Yes">>) EXCEPT !.displays_artefact = "A9"],
     [Q("Q1", "stimulus_display", TextPlain, Absent) EXCEPT !.displays_artefact = NoneStr],
     Q("Q1", "ranking", TextRank, <<"Yes", "No">>),
     Q("Q1", "scale", TextNps, <<"No", "Yes", PreferNotToSay>>),
     Q("Q1", "scale", TextPlain, <<"Yes", "Yes", "No">>),
     Q("Q1", "single_choice", TextPlain, <<"Yes", "prefer not to say">>),
     Q("Q1", "single_choice", TextPlain, <<"Yes", " ", "No">>),
     Q("Q1", "single_choice", TextPlain, None),
     Q("Q1", "open_ended", TextPlain, None),
     Q("Q1", "matrix", TextPlain, None),
     Q("Q1", NoneStr, TextPlain, <<"Yes", "No">>),
     Q("Q1", AbsentStr, TextPlain, <<>>),
     Q("Q1", "open_ended", AbsentStr, <<>>),
     Q("Q1", "open_ended", "", <<>>),
     Q(AbsentStr, "open_ended", TextPlain, <<>>),
     Q(NoneStr, "single_choice", TextPlain, <<"Yes", "No">>),
     Q("", "open_ended", TextPlain, Absent)}
FieldInputs ==
    {Input(InScreener(q), NoBrief) : q \in FieldQuestions}
    \cup {Input(InMain(q), NoBrief) : q \in FieldQuestions}
    \cup {Input(InDemographics(q), NoBrief) : q \in FieldQuestions}

\* Structure family: one main subsection holding up to MaxMainQ distinct
\* questions out of a plain question, two stimulus displays and the Van
\* Westendorp price questions, in every order, without and with the
\* pricing-study skill.
Templates ==
    <<Q("Q1", "single_choice", TextPlain, <<"Yes", "No">>),
      [Q("S1", "stimulus_display", TextPlain, <<>>) EXCEPT !.displays_artefact = "A1"],
      Q("S2", "stimulus_display", TextPlain, <<>>),
      Q("P1", "open_ended", TextTooCheap, <<>>),
      Q("P2", "open_ended", TextBargain, <<>>),
      Q("P3", "open_ended", TextExpensive, <<>>),
      Q("P4", "open_ended", TextTooExpensive, <<>>),
      [Q("P5", "stimulus_display", TextExpensive, <<>>) EXCEPT !.displays_artefact = "A1"]>>
Orders ==
    {s \in UNION {[1..n -> DOMAIN Templates] : n \in 1..MaxMainQ} :
        \A i, j \in DOMAIN s : i # j => s[i] # s[j]}
StructureInputs ==
    {Input(Survey(RequiredTopLevelKeys, Artefacts, <<>>,
                  <<SubSection("MS1", [i \in DOMAIN s |-> Templates[s[i]]])>>, <<>>, <<>>), b) :
        s \in Orders, b \in {NoBrief, PricingBrief}}

\* Quota family: a screener question carrying quota keys, against a brief
\* without and with quotas.  quota_groups is homogeneous: all strings or all objects.
QuotaGroupLists ==
    {<<>>,
     <<[kind |-> "str", label |-> "18-34"]>>,
     <<[kind |-> "str", label |-> "18-34"], [kind |-> "str", label |-> "35+"]>>,
     <<[kind |-> "obj", label |-> "18-34", min |-> 100, max |-> 200]>>,
     <<[kind |-> "obj", label |-> "35+"]>>}
QuotaQuestions ==
    {[Q("SCR_1", "single_choice", TextPlain, <<"Yes", "No", PreferNotToSay>>)
         EXCEPT !.quota_attribute = a, !.quota_type = t, !.quota_groups = g] :
        a \in {AbsentStr, "age", "region"}, t \in {AbsentStr, "hard", "soft"},
        g \in QuotaGroupLists}
QuotaInputs == {Input(InScreener(q), b) : q \in QuotaQuestions, b \in {NoBrief, QuotaBrief}}


\* Shape family: the top-level keys present and their order, several
\* subsections, repeated ids, routing rules, the optional sections.
PlainQ(id) == Q(id, "single_choice", TextPlain, <<"Yes", "No", PreferNotToSay>>)
KeyLists ==
    {RequiredTopLevelKeys,
     <<"STUDY_METADATA", "SCREENER", "DEMOGRAPHICS", "MAIN_SECTION", "FLOW",
       "DIMENSION_COVERAGE_SUMMARY">>,
     <<"STUDY_METADATA", "SCREENER", "MAIN_SECTION", "DEMOGRAPHICS", "FLOW">>,
     <<"SCREENER", "MAIN_SECTION", "FLOW", "DIMENSION_COVERAGE_SUMMARY">>,
     RequiredTopLevelKeys \o <<"SAMPLE_REQUIREMENTS", "PROGRAMMING_SPECIFICATIONS", "ANALYSIS_PLAN">>}
SubSectionLists ==
    {<<SubSection("MS1", <<PlainQ("Q2")>>)>>,
     <<SubSection("MS1", <<PlainQ("Q1")>>), SubSection("MS2", <<PlainQ("Q2")>>)>>,
     <<SubSection("MS1", <<PlainQ("Q2")>>), SubSection("MS1", <<PlainQ("Q3")>>)>>,
     <<SubSection("", <<PlainQ("Q2"), PlainQ("Q2")>>)>>,
     <<[SubSection("MS1", <<PlainQ("Q2"), Q("Q3", "matrix", TextPlain, <<>>)>>)
           EXCEPT !.purpose = "core measures"]>>}
RuleLists ==
    {<<>>,
     <<[rule_id |-> "R1", condition_qids |-> <<"SCR_Q1">>, action_sections |-> <<"MS1">>]>>,
     <<[rule_id |-> "R1", condition_qids |-> <<"SCR_Q9">>, action_sections |-> <<"MS9">>]>>}
ShapeInputs ==
    {Input(Survey(keys, <<>>, <<PlainQ("SCR_Q1")>>, subs,
                  IF "DEMOGRAPHICS" \in Range(keys) THEN dem ELSE <<>>, rules), NoBrief) :
        keys \in KeyLists, subs \in SubSectionLists,
        dem \in {<<>>, <<PlainQ("SCR_Q1")>>, <<PlainQ("DEM_Q1")>>}, rules \in RuleLists}

\* Screener family: several screener questions, with options that need the
\* "Prefer not to say" option, that have it in some spelling, and without options
ScreenerQuestions ==
    <<Q("SCR_Q1", "single_choice", TextPlain, <<"Yes", "No">>),
      Q("SCR_Q2", "single_choice", TextPlain, <<"Yes", "PREFER NOT TO SAY">>),
      Q("SCR_Q3", "open_ended", TextPlain, <<>>),
      Q("SCR_Q4", "multiple_choice", TextPlain, <<"I would prefer  not to say", "No">>),
      Q("SCR_Q5", "multiple_choice", TextPlain, <<"No">>)>>
ScreenerInputs ==
    {Input(Survey(RequiredTopLevelKeys, <<>>, [i \in DOMAIN s |-> ScreenerQuestions[s[i]]],
                  <<SubSection("MS1", <<PlainQ("Q1")>>)>>, <<>>, <<>>), NoBrief) :
        s \in {<<1, 2>>, <<2, 1>>, <<1, 3, 5>>, <<4, 5, 2>>, <<5, 1, 4>>, <<3, 4>>, <<5, 2, 1>>,
               <<1, 2, 3, 4, 5>>}}

\* NPS family: a subsection holding a likelihood-to-recommend question on a
\* scale of 5 points, of 11 labelled points or of 11 plain points, with or
\* without its open-ended follow-up and a satisfaction question, under a brief
\* with and without the "nps-csat" skill.
NpsBrief == [skills |-> {"nps-csat"}, quotas |-> <<>>]
FivePoints == <<"Very unlikely", "Unlikely", "Neutral", "Likely", "Very likely">>
ElevenPoints ==
    <<"0 - Not at all likely", "1", "2", "3", "4", "5", "6", "7", "8", "9",
      "10 - Extremely likely">>
PlainPoints == <<"1", "2", "3", "4", "5", "6", "7", "8", "9", "10", "11">>
NpsQuestions ==
    <<Q("Q1", "scale", TextNps, FivePoints),
      Q("Q1", "scale", TextNps, ElevenPoints),
      Q("Q1", "scale", TextNps, PlainPoints),
      Q("Q2", "open_ended", TextWhy, <<>>),
      Q("Q3", "scale", TextCsat, FivePoints),
      Q("Q3", "scale", TextCsat, ElevenPoints),
      Q("Q1", "single_choice", TextNps, <<"Yes", "No">>)>>
NpsInputs ==
    {Input(Survey(RequiredTopLevelKeys, <<>>, <<>>,
                  <<SubSection("MS1", [i \in DOMAIN s |-> NpsQuestions[s[i]]])>>, dem, <<>>), b) :
        s \in {<<1>>, <<2>>, <<1, 4>>, <<2, 4>>, <<3, 4>>, <<7, 4>>, <<1, 5>>, <<2, 4, 5>>,
               <<6, 1, 4>>, <<5>>},
        dem \in {<<>>, <<Q("D1", "scale", TextNps, FivePoints)>>},
        b \in {NoBrief, NpsBrief, PricingBrief}}

\* Pricing family: a subsection of five questions, the four Van Westendorp
\* questions and, at every place among them, a plain question or a second
\* question that matches a price keyword.
SecondBargain == Q("P6", "open_ended", TextBargain, <<>>)
PricingInputs ==
    {Input(Survey(RequiredTopLevelKeys, Artefacts, <<>>,
                  <<SubSection("MS1", InsertAt(<<Templates[4], Templates[5], Templates[6],
                                                 Templates[7]>>, at, fifth))>>, <<>>, <<>>), b) :
        at \in 0..4, fifth \in {Templates[1], SecondBargain}, b \in {NoBrief, PricingBrief}}

\* The quota questions in DEMOGRAPHICS, where CORE_009 does not look
QuotaElsewhereInputs ==
    {Input(InDemographics(q), b) : q \in QuotaQuestions, b \in {NoBrief, QuotaBrief}}

Inputs ==
    ProbeInputs \cup FieldInputs \cup StructureInputs \cup QuotaInputs \cup ShapeInputs
    \cup ScreenerInputs \cup NpsInputs \cup PricingInputs \cup QuotaElsewhereInputs

\* The documents SurveyValidator.validate runs on without raising: it takes
\* len() of a non-empty-tested options value, which is a list or absent.
Validatable(survey) ==
    \A i \in DOMAIN QuestionsCoreOrder(survey) : QuestionsCoreOrder(survey)[i].q.options # None

-----------------------------------------------------------------------------
(* The pipeline: validation passes chained on one document, and the build of
   the static assets from the document as it stands *)

Current == docs[Len(docs)]

LoiIdle == [questions |-> <<>>, config |-> <<>>]
PatchIdle == [doc |-> <<>>, ops |-> <<>>, status |-> "idle", after |-> <<>>]
RoutingIdle == [flow |-> <<>>, question_ids |-> <<>>, built |-> FALSE, index |-> <<>>]
RenderIdle == [survey |-> <<>>, specs |-> <<>>]
BatchIdle ==
    [status |-> "idle", exit_code |-> 0, patched |-> <<>>, log |-> <<>>,
     survey_exists |-> FALSE, brief_exists |-> FALSE]

Init ==
    \E inp \in Inputs :
        /\ docs = <<inp.survey>>
        /\ runs = <<>>
        /\ brief = inp.brief
        /\ caller = [before |-> inp.survey, after |-> inp.survey]
        /\ nsurvey = <<>>
        /\ assets = NoAssets /\ routing = RoutingIdle /\ batch = BatchIdle /\ render = RenderIdle
        /\ loi = LoiIdle
        /\ patch = PatchIdle

\* patched, results = SurveyValidator(Current, brief).validate()
ValidatePass ==
    /\ Len(runs) < MaxPasses
    /\ Validatable(Current)
    /\ \E working \in {ValidatorInit(Current)} :
          \E out \in {Validate(working.value, brief)} :
              /\ docs' = Append(docs, out.survey)
              /\ runs' = Append(runs, out.results)
              /\ caller' = [before |-> Current,
                            after |-> CallerAfter(Current, working, out.survey)]
    /\ UNCHANGED <<brief, nsurvey, assets, loi, patch, routing, batch, render>>

\* build_static_assets(Current)
BuildAssets ==
    /\ assets.status = "none"
    /\ \E n \in {ValidateAndNormalise(Current)} :
          /\ nsurvey' = <<[survey |-> Current, normalised |-> n.survey,
                           issues |-> n.issues]>>
          /\ caller' = [before |-> Current,
                        after |-> CallerAfter(Current, DeepCopy(Current), n.survey)]
    /\ assets' = BuildStaticAssets(Current)
    /\ UNCHANGED <<docs, runs, brief, loi, patch, routing, batch, render>>

Next == ValidatePass \/ BuildAssets

Spec == Init /\ [][Next]_vars

-----------------------------------------------------------------------------
(* Properties of the validator *)

AutoFixes(results) == SelectSeq(results, LAMBDA r : r.severity = "auto_fix")
Errors(results) == SelectSeq(results, LAMBDA r : r.severity = "error")

\* C1: validating the patched survey of a validate pass, with the same brief,
\* produces no result of severity auto_fix.
SecondPassHasNoAutoFix ==
    \A k \in 2..Len(runs) : AutoFixes(runs[k]) = <<>>

\* C2: the patched documents of repeated validation never cycle between
\* distinct documents: a document that comes back was kept by every pass in
\* between.
PatchedDocumentsNeverCycle ==
    \A i, j \in DOMAIN docs :
        i < j /\ docs[i] = docs[j] => \A k \in i..j : docs[k] = docs[i]

\* C3: every error result of a pass is reported again, with the same check_id
\* and question_id, when the patched survey of that pass is validated.
ErrorsAreReportedAgain ==
    \A k \in 1..(Len(runs) - 1) :
        \A i \in DOMAIN runs[k] :
            runs[k][i].severity = "error" =>
                \E j \in DOMAIN runs[k + 1] :
                    /\ runs[k + 1][j].severity = "error"
                    /\ runs[k + 1][j].check_id = runs[k][i].check_id
                    /\ runs[k + 1][j].question_id = runs[k][i].question_id

\* C4: the patched survey of a pass differs from the survey the pass was given
\* if and only if the results of the pass hold an auto_fix result.
PatchedDiffersIffAutoFix ==
    \A k \in DOMAIN runs : (docs[k + 1] # docs[k]) <=> (AutoFixes(runs[k]) # <<>>)

\* The data-model invariants of a survey document
UniqueQuestionIds(survey) ==
    LET all == QuestionsCoreOrder(survey)
    IN  \A i, j \in DOMAIN all : i # j => all[i].q.question_id # all[j].q.question_id
FieldsFitType(q) ==
    /\ q.question_type = "matrix" =>
          Truthy(q.rows) /\ Truthy(q.columns) /\ ~Truthy(q.options)
    /\ q.question_type \in {"open_ended", "numeric_input", "stimulus_display"} =>
          ~Truthy(q.options)
    /\ q.question_type \in {"single_choice", "multiple_choice", "scale", "ranking"} =>
          Truthy(q.options)
DataModelInvariants(survey) ==
    LET all == QuestionsCoreOrder(survey)
    IN  /\ UniqueQuestionIds(survey)
        /\ \A i \in DOMAIN all :
              /\ FieldsFitType(all[i].q)
              /\ all[i].q.question_type = "stimulus_display" =>
                    all[i].q.displays_artefact \in ArtefactIds(survey)

\* C6: when a pass reports no error result, its patched survey satisfies the
\* data-model invariants.
NoErrorGivesValidDocument ==
    \A k \in DOMAIN runs : Errors(runs[k]) = <<>> => DataModelInvariants(docs[k + 1])

-----------------------------------------------------------------------------
(* Properties of the normaliser and of build_static_assets *)

HasRequiredKeys(survey) == Range(RequiredTopLevelKeys) \subseteq Range(survey.keys)

\* C7: after validate_and_normalise on a document with all required top-level
\* keys, every matrix question has non-empty rows and columns and empty
\* options, and every open_ended, numeric_input and stimulus_display question
\* has empty options.
NormalisedQuestionsWellFormed ==
    nsurvey # <<>> /\ HasRequiredKeys(nsurvey[1].survey) =>
        LET qs == QuestionsRenderOrder(nsurvey[1].normalised)
        IN  \A i \in DOMAIN qs :
                /\ qs[i].question_type = "matrix" =>
                      Truthy(qs[i].rows) /\ Truthy(qs[i].columns) /\ qs[i].options = <<>>
                /\ qs[i].question_type \in {"open_ended", "numeric_input", "stimulus_display"} =>
                      qs[i].options = <<>>

\* Every question of a survey with its JSON pointer, in rendering order
QuestionsWithPaths(survey) ==
    LET subs == survey.MAIN_SECTION.sub_sections
        Tag(qs, base) == [i \in 1..Len(qs) |-> [q |-> qs[i], path |-> Append(base, ToString(i - 1))]]
    IN  Tag(survey.SCREENER.questions, <<"SCREENER", "questions">>)
        \o Flatten([k \in 1..Len(subs) |->
               Tag(subs[k].questions,
                   <<"MAIN_SECTION", "sub_sections", ToString(k - 1), "questions">>)])
        \o Tag(survey.DEMOGRAPHICS.questions, <<"DEMOGRAPHICS", "questions">>)

IsPrefix(p, s) == Len(p) <= Len(s) /\ SubSeq(s, 1, Len(p)) = p

\* An options, rows or columns value that was present has been replaced
ReplacedExisting(before, after) ==
    \E f \in {"options", "rows", "columns"} : before[f] # Absent /\ after[f] # before[f]

\* C8: whenever validate_and_normalise replaces an existing options, rows or
\* columns value of a question, it emits an issue whose json_path lies inside
\* that question.
NoSilentCoercion ==
    nsurvey # <<>> =>
        LET before == QuestionsWithPaths(nsurvey[1].survey)
            after  == QuestionsWithPaths(nsurvey[1].normalised)
        IN  \A i \in DOMAIN before :
                ReplacedExisting(before[i].q, after[i].q) =>
                    \E k \in DOMAIN nsurvey[1].issues :
                        IsPrefix(before[i].path, nsurvey[1].issues[k].json_path)

\* C9: build_static_assets returns the normalised survey and the full issue
\* list in every case, with ui_spec null when at least one issue was reported
\* and a rendered ui_spec when none was.
AssetsWithholdOnlyUiSpec ==
    nsurvey # <<>> =>
        /\ assets.status = "returned"
        /\ assets.normalised_survey = <<nsurvey[1].normalised>>
        /\ assets.issues = nsurvey[1].issues
        /\ (assets.ui_spec = <<>>) <=> (nsurvey[1].issues # <<>>)

-----------------------------------------------------------------------------
(* loi_calculator.py: LOICalculator *)

\* QUICK_RANGE[1], STANDARD_RANGE[1], DEEP_RANGE[1] and the second factors of
\* the two progress computations
QuickMax == 30
StandardMax == 70
DeepMax == 100
StandardWidth == 40
DeepWidth == 30
DefaultPosition == 50

Max(a, b) == IF a >= b THEN a ELSE b

\* n / d rounded with a tie going up, which is not what round() does
RoundHalfUp(n, d) == (2 * n + d) \div (2 * d)

\* round(n / d) for n >= 0 and d > 0: Python rounds a tie to the even integer.
\* The code rounds the float product ((p - lo) / width) * max_rank; for every
\* position and every max_rank below 45 that float rounds to the same integer
\* as the exact quotient (p - lo) * max_rank / width.
PyRound(n, d) ==
    LET q == n \div d
        r == n % d
    IN  IF 2 * r > d \/ (2 * r = d /\ q % 2 = 1) THEN q + 1 ELSE q

\* _get_all_questions is loi.questions: the questions of SCREENER, of the
\* MAIN_SECTION sub_sections and of DEMOGRAPHICS, in that order.
\* _get_max_priority_rank
GetMaxPriorityRank(questions, level) ==
    LET ranks == {questions[i].priority_rank :
                     i \in {j \in DOMAIN questions : questions[j].priority = level}}
    IN  IF ranks = {} THEN 1
        ELSE Max(1, CHOOSE m \in ranks : \A r \in ranks : r <= m)

\* _should_show_question with the mistake of showing the optional questions
\* below the deep tier instead of hiding them
ShowsOptionalEarly(questions, position, priority, rank) ==
    CASE priority = "required" -> TRUE
      [] priority = "recommended" ->
            IF position <= QuickMax THEN FALSE
            ELSE IF position >= StandardMax THEN TRUE
            ELSE rank <= Max(1, PyRound((position - QuickMax)
                                        * GetMaxPriorityRank(questions, "recommended"),
                                        StandardWidth))
      [] priority = "optional" ->
            IF position < StandardMax THEN TRUE
            ELSE IF position >= DeepMax THEN TRUE
            ELSE rank <= Max(1, PyRound((position - StandardMax)
                                        * GetMaxPriorityRank(questions, "optional"),
                                        DeepWidth))
      [] OTHER -> TRUE

\* _should_show_question
ShouldShowQuestion(questions, position, priority, rank) ==
    CASE priority = "required" -> TRUE
      [] priority = "recommended" ->
            IF position <= QuickMax THEN FALSE
            ELSE IF position >= StandardMax THEN TRUE
            ELSE rank <= Max(1, PyRound((position - QuickMax)
                                        * GetMaxPriorityRank(questions, "recommended"),
                                        StandardWidth))
      [] priority = "optional" ->
            IF position < StandardMax THEN FALSE
            ELSE IF position >= DeepMax THEN TRUE
            ELSE rank <= Max(1, PyRound((position - StandardMax)
                                        * GetMaxPriorityRank(questions, "optional"),
                                        DeepWidth))
      [] OTHER -> TRUE

\* _get_snap_point
GetSnapPoint(position) ==
    IF position <= QuickMax THEN "quick"
    ELSE IF position <= StandardMax THEN "standard"
    ELSE "deep"

\* question.get("user_override", "none")
OverrideOf(q) == IF q.user_override = AbsentStr THEN "none" ELSE q.user_override

\* The visibility of a question if the loop looked at the slider alone
VisibilityBySliderOnly(questions, position, q) ==
    IF ShouldShowQuestion(questions, position, q.priority, q.priority_rank)
    THEN "visible" ELSE "hidden"

\* The visibility of a question if the loop left it as the earlier calls set it
VisibilityLeftAsIs(questions, position, q) == q.loi_visibility

\* The visibility _calculate_loi_config gives one question
VisibilityAt(questions, position, q) ==
    CASE OverrideOf(q) = "pinned" -> "visible"
      [] OverrideOf(q) = "excluded" -> "hidden"
      [] OTHER -> IF ShouldShowQuestion(questions, position, q.priority, q.priority_rank)
                  THEN "visible" ELSE "hidden"

RECURSIVE SumSeconds(_)
SumSeconds(qs) == IF qs = <<>> THEN 0 ELSE Head(qs).estimated_seconds + SumSeconds(Tail(qs))

\* _calculate_loi_config: the questions with their loi_visibility set, and the
\* loi_config.  estimated_loi_minutes is round(total_seconds / 60, 1), a
\* function of total_seconds, which is kept in its place.
CalculateLoiConfig(questions, position) ==
    LET qs == [i \in 1..Len(questions) |->
                  [questions[i] EXCEPT
                      !.loi_visibility = VisibilityAt(questions, position, questions[i])]]
        Count(P(_)) == Len(SelectSeq(qs, P))
    IN  [questions |-> qs,
         config |->
            [slider_position |-> position,
             snap_point |-> GetSnapPoint(position),
             total_seconds |-> SumSeconds(SelectSeq(qs, LAMBDA q : q.loi_visibility = "visible")),
             total_questions |-> Len(qs),
             visible_questions |-> Count(LAMBDA q : q.loi_visibility = "visible"),
             hidden_questions |-> Count(LAMBDA q : q.loi_visibility = "hidden"),
             user_pinned_count |-> Count(LAMBDA q : OverrideOf(q) = "pinned"),
             user_excluded_count |-> Count(LAMBDA q : OverrideOf(q) = "excluded")]]

\* _ensure_question_loi_fields: the modelled questions carry priority,
\* priority_rank and estimated_seconds; loi_visibility and user_override get
\* their defaults when absent
EnsureQuestionLoiFields(questions) ==
    [i \in 1..Len(questions) |->
        [questions[i] EXCEPT
            !.loi_visibility = IF @ = AbsentStr THEN "visible" ELSE @,
            !.user_override = IF @ = AbsentStr THEN "none" ELSE @]]

\* _find_question: the index of the first question with the id, 0 for None
FindQuestion(questions, id) ==
    LET hits == SelectIdx(questions, LAMBDA q : q.question_id = id)
    IN  IF hits = <<>> THEN 0 ELSE hits[1]

\* The position of a calculator that forgets the stored slider position
AlwaysDefaultPosition(l) == DefaultPosition

\* self.survey.get("loi_config", {}).get("slider_position", 50)
CurrentPosition(l) == IF l.config = <<>> THEN DefaultPosition ELSE l.config[1].slider_position


MaxLoiQ == 2        \* questions of a survey given to the LOI calculator
MaxRank == 3        \* largest priority_rank of such a question

Positions == 0..DeepMax

\* The surveys the calculator is constructed on: up to MaxLoiQ questions of
\* every priority and rank that carry their LOI fields, and the single
\* questions that have no loi_visibility and no user_override yet.
LoiKinds ==
    {<<"required", 1>>, <<"other", 1>>}
    \cup {<<p, r>> : p \in {"recommended", "optional"}, r \in 1..MaxRank}
LoiQuestion(i, kind, visibility, override) ==
    [question_id |-> "L" \o ToString(i), priority |-> kind[1], priority_rank |-> kind[2],
     estimated_seconds |-> 10, loi_visibility |-> visibility, user_override |-> override]
LoiSurveys ==
    {[i \in DOMAIN ks |-> LoiQuestion(i, ks[i], "visible", "none")] :
        ks \in UNION {[1..n -> LoiKinds] : n \in 1..MaxLoiQ}}
    \cup {<<LoiQuestion(1, k, AbsentStr, AbsentStr)>> : k \in LoiKinds}
QuestionIds == {"L" \o ToString(i) : i \in 1..(MaxLoiQ + 1)}

InitLOI ==
    /\ loi \in {[questions |-> qs, config |-> <<>>] : qs \in LoiSurveys}
    /\ docs = <<>> /\ runs = <<>> /\ brief = NoBrief
    /\ caller = [before |-> <<>>, after |-> <<>>]
    /\ nsurvey = <<>> /\ assets = NoAssets /\ routing = RoutingIdle /\ batch = BatchIdle /\ render = RenderIdle /\ patch = PatchIdle

\* What update_loi_config(position) leaves in self.survey; the loi_config is
\* also what it returns
Recalculate(questions, position) ==
    LET c == CalculateLoiConfig(questions, position)
    IN  [questions |-> c.questions, config |-> <<c.config>>]

\* add_loi_config(initial_position)
AddLoiConfig(position) ==
    /\ loi' = Recalculate(EnsureQuestionLoiFields(loi.questions), position)
    /\ UNCHANGED <<docs, runs, brief, caller, nsurvey, assets, patch, routing, batch, render>>

\* update_loi_config(slider_position)
UpdateLoiConfig(position) ==
    /\ loi' = Recalculate(loi.questions, position)
    /\ UNCHANGED <<docs, runs, brief, caller, nsurvey, assets, patch, routing, batch, render>>

\* pin_question, exclude_question and reset_question_override: the found
\* question gets the override (and, but for a reset, its visibility), then
\* update_loi_config(current position)
SetOverride(id, override, visibility) ==
    LET i  == FindQuestion(loi.questions, id)
        qs == IF i = 0 THEN loi.questions
              ELSE [loi.questions EXCEPT
                       ![i] = [@ EXCEPT !.user_override = override,
                                        !.loi_visibility =
                                            IF visibility = "" THEN @ ELSE visibility]]
    IN  /\ loi' = Recalculate(qs, CurrentPosition(loi))
        /\ UNCHANGED <<docs, runs, brief, caller, nsurvey, assets, patch, routing, batch, render>>

PinQuestion(id) == SetOverride(id, "pinned", "visible")
ExcludeQuestion(id) == SetOverride(id, "excluded", "hidden")
ResetQuestionOverride(id) == SetOverride(id, "none", "")

NextLOI ==
    \/ AddLoiConfig(DefaultPosition)
    \/ \E p \in Positions : UpdateLoiConfig(p)
    \/ \E id \in QuestionIds : PinQuestion(id)
    \/ \E id \in QuestionIds : ExcludeQuestion(id)
    \/ \E id \in QuestionIds : ResetQuestionOverride(id)

SpecLOI == InitLOI /\ [][NextLOI]_vars

-----------------------------------------------------------------------------
(* Properties of the LOI calculator *)

\* Every question keeps its priority, priority_rank and user_override in the step
OverridesHeldFixed ==
    /\ Len(loi'.questions) = Len(loi.questions)
    /\ \A i \in DOMAIN loi.questions :
          /\ loi'.questions[i].priority = loi.questions[i].priority
          /\ loi'.questions[i].priority_rank = loi.questions[i].priority_rank
          /\ OverrideOf(loi'.questions[i]) = OverrideOf(loi.questions[i])

\* C10: with every question's priority, priority_rank and user_override held
\* fixed, the visible_questions count returned by update_loi_config(p) is
\* non-decreasing in p: a call that moves the slider to a position at or above
\* the current one returns a count at or above the current one.
VisibleCountMonotone ==
    [][(/\ loi.config # <<>>
        /\ loi'.config[1].slider_position >= loi.config[1].slider_position
        /\ OverridesHeldFixed
        /\ UpdateLoiConfig(loi'.config[1].slider_position))
       => loi'.config[1].visible_questions >= loi.config[1].visible_questions]_vars

\* C10 happens: update_loi_config returned a count that depends on the
\* position, one question shown and another hidden by the slider alone.
UpdateShowsSomeHidesSome ==
    /\ loi.config # <<>>
    /\ loi.config[1].slider_position \in (QuickMax + 1)..(DeepMax - 1)
    /\ loi.config[1].visible_questions >= 1
    /\ loi.config[1].hidden_questions >= 1
    /\ loi.config[1].user_pinned_count = 0
    /\ loi.config[1].user_excluded_count = 0

\* C11: after any sequence of add_loi_config, update_loi_config, pin_question,
\* exclude_question and reset_question_override calls, every question whose
\* user_override is "pinned" has loi_visibility "visible" and every question
\* whose user_override is "excluded" has loi_visibility "hidden", at every
\* slider position.
OverridePrecedence ==
    \A i \in DOMAIN loi.questions :
        /\ loi.questions[i].user_override = "pinned" =>
              loi.questions[i].loi_visibility = "visible"
        /\ loi.questions[i].user_override = "excluded" =>
              loi.questions[i].loi_visibility = "hidden"

\* C11 happens: at position 0 a pinned question that the slider alone would
\* hide is visible, and an excluded required question is hidden.
PinnedShownExcludedHiddenAtZero ==
    /\ loi.config # <<>>
    /\ loi.config[1].slider_position = 0
    /\ \E i, j \in DOMAIN loi.questions :
          /\ loi.questions[i].user_override = "pinned"
          /\ loi.questions[i].priority \in {"recommended", "optional"}
          /\ loi.questions[i].loi_visibility = "visible"
          /\ loi.questions[j].user_override = "excluded"
          /\ loi.questions[j].priority = "required"
          /\ loi.questions[j].loi_visibility = "hidden"

\* The largest priority_rank among the questions of a priority level that has
\* a question
MaxRankAmong(level) ==
    LET ranks == {loi.questions[i].priority_rank :
                     i \in {j \in DOMAIN loi.questions : loi.questions[j].priority = level}}
    IN  CHOOSE m \in ranks : \A r \in ranks : r <= m

\* k is n / d rounded: nearer to n / d than any other integer, and the even one
\* of the two nearest when n / d lies half way between them (round())
IsRounded(n, d, k) ==
    LET e == 2 * (n - k * d)
    IN  (-d < e /\ e < d) \/ ((e = d \/ e = -d) /\ k % 2 = 0)

\* max(1, round((share / width) * maxRank))
RankThreshold(share, width, maxRank) ==
    Max(1, CHOOSE k \in 0..maxRank : IsRounded(share * maxRank, width, k))

\* The rule for a question without override
SpecifiedRule(position, priority, rank) ==
    CASE priority = "required" -> TRUE
      [] priority = "recommended" ->
            IF position <= 30 THEN FALSE
            ELSE IF position >= 70 THEN TRUE
            ELSE rank <= RankThreshold(position - 30, 40, MaxRankAmong("recommended"))
      [] priority = "optional" ->
            IF position < 70 THEN FALSE
            ELSE IF position = 100 THEN TRUE
            ELSE rank <= RankThreshold(position - 70, 30, MaxRankAmong("optional"))

-----------------------------------------------------------------------------
(* render_survey.py: apply_json_patch *)

\* JSON values: each kind is a record with one field of its own, so that
\* values of different kinds are different
JInt(n) == [int |-> n]
JStr(s) == [str |-> s]
JList(s) == [list |-> s]
JDict(f) == [dict |-> f]
IsList(v) == "list" \in DOMAIN v
IsDict(v) == "dict" \in DOMAIN v

\* A JSON pointer text: "/" joined segments, with a leading "/" when rooted
\* ("" is the unrooted pointer without segments).  The segments hold no "~".
Pointer(rooted, parts) == [given |-> TRUE, rooted |-> rooted, parts |-> parts]

\* op.get("path") of an op without "path"
NoPath == [given |-> FALSE, rooted |-> FALSE, parts |-> <<>>]

\* A patch op; NoneStr stands for a missing "op"
Op(operation, path, value) == [op |-> operation, path |-> path, value |-> value]

\* How a call ends: "returned", or the exception it raises
Outcome(status, doc) == [status |-> status, doc |-> doc]

\* _split_pointer: the parts, or <<"$JsonPatchError">> for a pointer that is
\* not empty and does not start with "/".  lstrip("/") drops every leading
\* "/", so the leading empty segments of the text are lost.
RECURSIVE DropLeadingEmpty(_)
DropLeadingEmpty(parts) ==
    IF parts # <<>> /\ Head(parts) = "" THEN DropLeadingEmpty(Tail(parts)) ELSE parts
SplitPointer(path) ==
    IF ~path.rooted
    THEN IF path.parts = <<>> THEN <<>> ELSE <<"$JsonPatchError">>
    ELSE IF DropLeadingEmpty(path.parts) = <<>> THEN <<"">>
    ELSE DropLeadingEmpty(path.parts)

\* int(p): the segments that int() accepts, and their values
Numeric(p) == p \in {"0", "1", "2", "3", "-1"}
IntOf(p) ==
    CASE p = "0" -> 0 [] p = "1" -> 1 [] p = "2" -> 2 [] p = "3" -> 3 [] p = "-1" -> -1

\* list[k]: a negative k counts from the end; the 1-based position, 0 for
\* IndexError
Position(s, k) ==
    IF k >= 0 THEN (IF k < Len(s) THEN k + 1 ELSE 0)
    ELSE (IF -k <= Len(s) THEN Len(s) + k + 1 ELSE 0)

\* An insert one place too far to the right
ListInsertAfter(s, k, v) == InsertAt(s, k + 1, v)

\* list.insert(k, v): a negative k counts from the end and stops at 0, a k
\* beyond the end appends
ListInsert(s, k, v) ==
    InsertAt(s, IF k >= 0 THEN k ELSE (IF Len(s) + k > 0 THEN Len(s) + k ELSE 0), v)

ListPop(s, pos) == SubSeq(s, 1, pos - 1) \o SubSeq(s, pos + 1, Len(s))

\* dict with key set to v, and dict without key
DictSet(f, key, v) == [k \in DOMAIN f \cup {key} |-> IF k = key THEN v ELSE f[k]]
DictPop(f, key) == [k \in DOMAIN f \ {key} |-> f[k]]

\* The value a resolved route leads to: a route is the sequence of list
\* positions and dict keys that names one object inside the document
RECURSIVE NodeAt(_, _)
NodeAt(node, route) ==
    IF route = <<>> THEN node
    ELSE IF IsList(node) THEN NodeAt(node.list[Head(route)], Tail(route))
    ELSE NodeAt(node.dict[Head(route)], Tail(route))

\* The document with the object at the route mutated into `new`
RECURSIVE Mutated(_, _, _)
Mutated(node, route, new) ==
    IF route = <<>> THEN new
    ELSE IF IsList(node)
    THEN JList([node.list EXCEPT ![Head(route)] = Mutated(@, Tail(route), new)])
    ELSE JDict([node.dict EXCEPT ![Head(route)] = Mutated(@, Tail(route), new)])

\* The loop of _get_parent_and_key over parts[:-1], from the object at `route`:
\* the route of the parent, or the exception raised
RECURSIVE Traverse(_, _, _)
Traverse(doc, route, parts) ==
    IF Len(parts) <= 1 THEN [status |-> "ok", route |-> route]
    ELSE LET parent == NodeAt(doc, route)
             p      == Head(parts)
         IN  IF IsList(parent)
             THEN IF ~Numeric(p) THEN [status |-> "ValueError", route |-> route]
                  ELSE IF Position(parent.list, IntOf(p)) = 0
                  THEN [status |-> "IndexError", route |-> route]
                  ELSE Traverse(doc, Append(route, Position(parent.list, IntOf(p))),
                                Tail(parts))
             ELSE IF IsDict(parent)
             THEN IF p \notin DOMAIN parent.dict
                  THEN [status |-> "KeyError", route |-> route]
                  ELSE Traverse(doc, Append(route, p), Tail(parts))
             ELSE [status |-> "JsonPatchError", route |-> route]

\* _get_parent_and_key: the parent (by its route) and the key, or the
\* exception raised
GetParentAndKey(doc, path) ==
    LET parts == SplitPointer(path)
    IN  IF parts = <<>> \/ parts = <<"$JsonPatchError">>
        THEN [status |-> "JsonPatchError", route |-> <<>>, key |-> ""]
        ELSE LET t    == Traverse(doc, <<>>, parts)
                 last == parts[Len(parts)]
             IN  IF t.status # "ok" THEN [status |-> t.status, route |-> <<>>, key |-> ""]
                 ELSE IF IsList(NodeAt(doc, t.route)) /\ ~Numeric(last)
                 THEN [status |-> "ValueError", route |-> <<>>, key |-> ""]
                 ELSE [status |-> "ok", route |-> t.route, key |-> last]

\* One turn of the loop of apply_json_patch on the document as it stands
ApplyOp(doc, op) ==
    IF op.op \notin {"add", "replace", "remove"} THEN Outcome("JsonPatchError", doc)
    ELSE IF ~op.path.given THEN Outcome("JsonPatchError", doc)
    ELSE LET Act(pk) ==
                 IF pk.status # "ok" THEN Outcome(pk.status, doc)
                 ELSE LET parent == NodeAt(doc, pk.route)
                          Done(new) == Outcome("returned", Mutated(doc, pk.route, new))
                      IN  IF IsList(parent)
                          THEN LET key == IntOf(pk.key)
                                   pos == Position(parent.list, key)
                               IN  CASE op.op = "remove" ->
                                          IF pos = 0 THEN Outcome("IndexError", doc)
                                          ELSE Done(JList(ListPop(parent.list, pos)))
                                     [] op.op = "add" ->
                                          IF key = Len(parent.list)
                                          THEN Done(JList(Append(parent.list, op.value)))
                                          ELSE Done(JList(ListInsert(parent.list, key, op.value)))
                                     [] OTHER ->
                                          IF pos = 0 THEN Outcome("IndexError", doc)
                                          ELSE Done(JList([parent.list EXCEPT ![pos] = op.value]))
                          ELSE IF IsDict(parent)
                          THEN IF op.op = "remove"
                               THEN Done(JDict(DictPop(parent.dict, pk.key)))
                               ELSE Done(JDict(DictSet(parent.dict, pk.key, op.value)))
                          ELSE IF op.op = "remove"
                          THEN Outcome("AttributeError", doc)
                          ELSE Outcome("TypeError", doc)
         IN  Then(GetParentAndKey(doc, op.path), Act)

\* apply_json_patch(doc, patch_ops) from op i on: the ops are applied to the
\* document object itself, one after the other, until one raises
RECURSIVE ApplyJsonPatch(_, _, _)
ApplyJsonPatch(doc, ops, i) ==
    IF i > Len(ops) THEN Outcome("returned", doc)
    ELSE LET Go(r) == IF r.status = "returned" THEN ApplyJsonPatch(r.doc, ops, i + 1) ELSE r
         IN  Then(ApplyOp(doc, ops[i]), Go)


-----------------------------------------------------------------------------
(* The documents and patches apply_json_patch is called on *)

MaxArray == 3       \* elements of an array of a patched document
MaxPatchOps == 2    \* ops of a patch

Ints(n) == [i \in 1..n |-> JInt(i)]
Arrays == {JList(Ints(n)) : n \in 0..MaxArray}

\* {"a": array}, {"a": array, "b": 1}, {"a": {"b": array}}, [array, [1]],
\* {"a": [{"b": 1}, 2]}, {"a": 1} and {"a": "x"}
PatchDocs ==
    {JDict("a" :> arr) : arr \in Arrays}
    \cup {JDict("a" :> arr @@ "b" :> JInt(1)) : arr \in Arrays}
    \cup {JDict("a" :> JDict("b" :> arr)) : arr \in Arrays}
    \cup {JList(<<arr, JList(Ints(1))>>) : arr \in Arrays}
    \cup {JDict("a" :> JList(<<JDict("b" :> JInt(1)), JInt(2)>>)),
          JDict("a" :> JInt(1)), JDict("a" :> JStr("x"))}

Segments == {"a", "b", "0", "1", "2", "3", "-1"}

\* "/s", "/s/t" and "/a/b/t", "/a/0/t", "/0/0/t", "/0/a/t" for all segments
\* s and t; the pointers "", "a", "/" and "//a"; and no path
PatchPaths ==
    {Pointer(TRUE, <<s>>) : s \in Segments}
    \cup {Pointer(TRUE, <<s, t>>) : s \in Segments, t \in Segments}
    \cup {Pointer(TRUE, <<h[1], h[2], t>>) :
             h \in {<<"a", "b">>, <<"a", "0">>, <<"0", "0">>, <<"0", "a">>}, t \in Segments}
    \cup {Pointer(FALSE, <<>>), Pointer(FALSE, <<"a">>), Pointer(TRUE, <<>>),
          Pointer(TRUE, <<"", "a">>)}
    \cup {NoPath}

PatchOps ==
    {Op(o, p, JInt(9)) : o \in {"add", "replace", "remove", "move", NoneStr}, p \in PatchPaths}

\* The ops a patch of several ops starts with
FirstOps ==
    {Op("add", Pointer(TRUE, <<"a", "0">>), JInt(9)),
     Op("remove", Pointer(TRUE, <<"a", "0">>), JInt(9)),
     Op("replace", Pointer(TRUE, <<"b">>), JInt(9))}

Patches ==
    {<<>>} \cup {<<o>> : o \in PatchOps}
    \cup (IF MaxPatchOps >= 2 THEN {<<f, o>> : f \in FirstOps, o \in PatchOps} ELSE {})

InitPatch ==
    /\ patch \in {[doc |-> d, ops |-> o, status |-> "idle", after |-> d] :
                     d \in PatchDocs, o \in Patches}
    /\ docs = <<>> /\ runs = <<>> /\ brief = NoBrief
    /\ caller = [before |-> <<>>, after |-> <<>>]
    /\ nsurvey = <<>> /\ assets = NoAssets /\ routing = RoutingIdle /\ batch = BatchIdle /\ render = RenderIdle /\ loi = LoiIdle

\* apply_json_patch(doc, patch_ops): how it ends, and the document object as
\* it is left (the returned value is that object)
ApplyPatch ==
    /\ patch.status = "idle"
    /\ \E r \in {ApplyJsonPatch(patch.doc, patch.ops, 1)} :
          patch' = [patch EXCEPT !.status = r.status, !.after = r.doc]
    /\ UNCHANGED <<docs, runs, brief, caller, nsurvey, assets, loi, routing, batch, render>>

NextPatch == ApplyPatch

SpecPatch == InitPatch /\ [][NextPatch]_vars


\* ---------------------------------------------------------------------------
\* Failures of apply_json_patch

\* The patch was one op with a rooted pointer of plain segments, and the call
\* has ended
OneOpApplied == patch.status # "idle" /\ Len(patch.ops) = 1

PlainPointer(path) ==
    path.given /\ path.rooted /\ path.parts # <<>>
    /\ \A i \in 1..Len(path.parts) : path.parts[i] # ""

\* What following the segments from node meets first: a key or an index the
\* document does not have ("missing"), a value that is neither a list nor a
\* dict ("scalar"), a segment that is no index of a list ("other"), or the
\* value the segments name ("found")
RECURSIVE Resolves(_, _)
Resolves(node, parts) ==
    IF parts = <<>> THEN [meets |-> "found", node |-> node]
    ELSE IF IsDict(node)
    THEN IF Head(parts) \in DOMAIN node.dict
         THEN Resolves(node.dict[Head(parts)], Tail(parts))
         ELSE [meets |-> "missing", node |-> node]
    ELSE IF IsList(node)
    THEN IF Head(parts) \in {"0", "1", "2", "3"}
         THEN IF IntOf(Head(parts)) < Len(node.list)
              THEN Resolves(node.list[IntOf(Head(parts)) + 1], Tail(parts))
              ELSE [meets |-> "missing", node |-> node]
         ELSE [meets |-> "other", node |-> node]
    ELSE [meets |-> "scalar", node |-> node]

ParentParts(path) == SubSeq(path.parts, 1, Len(path.parts) - 1)

UnsupportedOp(op) == op.op \notin {"add", "replace", "remove"}

\* A segment before the last names a key or an index the document lacks
NamesMissingParent(doc, op) ==
    /\ ~UnsupportedOp(op) /\ PlainPointer(op.path)
    /\ Resolves(doc, ParentParts(op.path)).meets = "missing"

\* A replace or remove whose last segment is an index beyond the array
NamesMissingIndex(doc, op) ==
    /\ op.op \in {"replace", "remove"} /\ PlainPointer(op.path)
    /\ Resolves(doc, ParentParts(op.path)).meets = "found"
    /\ IsList(Resolves(doc, ParentParts(op.path)).node)
    /\ Resolves(doc, op.path.parts).meets = "missing"

\* A segment before the last is applied to a value that is no container
ReachesScalarOnTheWay(doc, op) ==
    /\ ~UnsupportedOp(op) /\ PlainPointer(op.path)
    /\ Resolves(doc, ParentParts(op.path)).meets = "scalar"

\* The parent of the last segment is no container
ParentIsScalar(doc, op) ==
    /\ ~UnsupportedOp(op) /\ PlainPointer(op.path)
    /\ Resolves(doc, ParentParts(op.path)).meets = "found"
    /\ ~IsList(Resolves(doc, ParentParts(op.path)).node)
    /\ ~IsDict(Resolves(doc, ParentParts(op.path)).node)

PatchMustFail(doc, op) ==
    \/ UnsupportedOp(op)
    \/ ~op.path.given
    \/ NamesMissingParent(doc, op)
    \/ NamesMissingIndex(doc, op)
    \/ ReachesScalarOnTheWay(doc, op)
    \/ ParentIsScalar(doc, op)

\* C13: an op that is unsupported, has no path, names a key or an index the
\* document lacks, or resolves through a value that is neither a list nor a
\* dict makes apply_json_patch raise JsonPatchError and no other exception.
PatchFailsWithJsonPatchError ==
    (OneOpApplied /\ PatchMustFail(patch.doc, patch.ops[1]))
        => patch.status = "JsonPatchError"

\* The cases of C13 that the code does end with JsonPatchError
UnsupportedOrPathlessOrThroughScalar ==
    (OneOpApplied
     /\ (\/ UnsupportedOp(patch.ops[1])
         \/ ~patch.ops[1].path.given
         \/ ReachesScalarOnTheWay(patch.doc, patch.ops[1])))
        => patch.status = "JsonPatchError"

MissingParentRaisesJsonPatchError ==
    (OneOpApplied /\ NamesMissingParent(patch.doc, patch.ops[1]))
        => patch.status = "JsonPatchError"

ScalarParentRaisesJsonPatchError ==
    (OneOpApplied /\ ParentIsScalar(patch.doc, patch.ops[1]))
        => patch.status = "JsonPatchError"


\* ---------------------------------------------------------------------------
\* add and remove on arrays

\* node with the value the segments name replaced by new, all else as it is
RECURSIVE WithValueAt(_, _, _)
WithValueAt(node, parts, new) ==
    IF parts = <<>> THEN new
    ELSE IF IsDict(node)
    THEN JDict([k \in DOMAIN node.dict |->
                  IF k = Head(parts) THEN WithValueAt(node.dict[k], Tail(parts), new)
                  ELSE node.dict[k]])
    ELSE JList([k \in 1..Len(node.list) |->
                  IF k = IntOf(Head(parts)) + 1
                  THEN WithValueAt(node.list[k], Tail(parts), new)
                  ELSE node.list[k]])

\* The array a with v at index i and the former elements i.. one to the right
ArrayWith(a, i, v) ==
    [k \in 1..(Len(a) + 1) |-> IF k <= i THEN a[k] ELSE IF k = i + 1 THEN v ELSE a[k - 1]]

\* The array a without its element at index i
ArrayWithout(a, i) ==
    [k \in 1..(Len(a) - 1) |-> IF k <= i THEN a[k] ELSE a[k + 1]]

\* The op names index i of an array of the document by a plain pointer
OnArrayIndex(doc, op) ==
    /\ PlainPointer(op.path)
    /\ Resolves(doc, ParentParts(op.path)).meets = "found"
    /\ IsList(Resolves(doc, ParentParts(op.path)).node)
    /\ op.path.parts[Len(op.path.parts)] \in {"0", "1", "2", "3"}

PatchedArray(doc, op) == Resolves(doc, ParentParts(op.path)).node.list
PatchedIndex(op) == IntOf(op.path.parts[Len(op.path.parts)])

ExampleDoc == JDict("a" :> JList(<<JInt(1), JInt(2), JInt(3)>>))

\* C14: add at index i (0 <= i <= n) of an array of length n puts the value at
\* position i and shifts the former elements i..n-1 right (i = n appends),
\* remove at index i < n drops element i, and the rest of the document is
\* unchanged; remove /a/0 on {"a":[1,2,3]} gives {"a":[2,3]}.
ArrayAddInsertsRemoveDeletes ==
    OneOpApplied =>
        LET doc == patch.doc
            op == patch.ops[1]
        IN  /\ (op.op = "add" /\ OnArrayIndex(doc, op) /\ PatchedIndex(op) <= Len(PatchedArray(doc, op)))
                 => /\ patch.status = "returned"
                    /\ patch.after = WithValueAt(doc, ParentParts(op.path),
                                         JList(ArrayWith(PatchedArray(doc, op), PatchedIndex(op), op.value)))
            /\ (op.op = "remove" /\ OnArrayIndex(doc, op) /\ PatchedIndex(op) < Len(PatchedArray(doc, op)))
                 => /\ patch.status = "returned"
                    /\ patch.after = WithValueAt(doc, ParentParts(op.path),
                                         JList(ArrayWithout(PatchedArray(doc, op), PatchedIndex(op))))
            /\ (doc = ExampleDoc /\ op = Op("remove", Pointer(TRUE, <<"a", "0">>), op.value))
                 => patch.after = JDict("a" :> JList(<<JInt(2), JInt(3)>>))

\* add /a/1 value 9 on {"a":[1,2,3]} has given {"a":[1,9,2,3]}
ExampleAddInserted ==
    /\ patch.status = "returned"
    /\ patch.doc = ExampleDoc
    /\ patch.ops = <<Op("add", Pointer(TRUE, <<"a", "1">>), JInt(9))>>
    /\ patch.after = JDict("a" :> JList(<<JInt(1), JInt(9), JInt(2), JInt(3)>>))


-----------------------------------------------------------------------------
(* Targeted repair: an issue of validate_and_normalise is repaired by a patch
   at its json_path, and the patched document is normalised again *)

MaxRepairs == 2     \* repairs of one document

IsIndexSegment(seg) == \E k \in 0..9 : ToString(k) = seg
IndexOfSegment(seg) == CHOOSE k \in 0..9 : ToString(k) = seg

\* parent[key] = value at the end of the path: what apply_json_patch does for
\* add and replace on a dict key, and for replace on an array index
RECURSIVE SetAtPath(_, _, _)
SetAtPath(node, path, value) ==
    IF path = <<>> THEN value
    ELSE IF IsIndexSegment(Head(path))
    THEN [node EXCEPT ![IndexOfSegment(Head(path)) + 1] = SetAtPath(@, Tail(path), value)]
    ELSE [node EXCEPT ![Head(path)] = SetAtPath(@, Tail(path), value)]

RECURSIVE GetAtPath(_, _)
GetAtPath(node, path) ==
    IF path = <<>> THEN node
    ELSE IF IsIndexSegment(Head(path))
    THEN GetAtPath(node[IndexOfSegment(Head(path)) + 1], Tail(path))
    ELSE GetAtPath(node[Head(path)], Tail(path))

\* The document with the op applied; "add" of a top-level key puts the key
\* into the document
PatchedSurvey(survey, op) ==
    IF Len(op.path.parts) = 1
    THEN [survey EXCEPT !.keys = IF op.path.parts[1] \in Range(@) THEN @
                                 ELSE Append(@, op.path.parts[1])]
    ELSE SetAtPath(survey, op.path.parts, op.value)

\* The ops that repair an issue at its json_path: a value the normaliser
\* accepts for the field the issue names
RepairOps(survey, issue) ==
    LET path == issue.json_path
        last == path[Len(path)]
        code == issue.error_code
        Ops(operation, values) == {Op(operation, Pointer(TRUE, path), v) : v \in values}
    IN  CASE code = "E_TOPLEVEL_MISSING_KEY" -> Ops("add", {"section"})
          [] code = "E_QUESTION_MISSING_REQUIRED" /\ last = "question_id" -> Ops("add", {"Q9"})
          [] code = "E_QUESTION_MISSING_REQUIRED" /\ last = "question_text" ->
                 Ops("add", {TextPlain})
          [] code = "E_QUESTION_MISSING_REQUIRED" /\ last = "question_type" ->
                 Ops("add", {"open_ended", "single_choice"})
          [] code = "E_QUESTION_BAD_TYPE" -> Ops("replace", {"open_ended", "single_choice"})
          [] code = "E_DUPLICATE_QUESTION_ID" -> Ops("replace", {"Q9"})
          [] code = "E_OPTIONS_MUST_BE_EMPTY" -> Ops("replace", {<<>>})
          [] code = "E_OPTIONS_REQUIRED" -> Ops("replace", {<<"A">>})
          [] code = "E_MATRIX_MISSING_ROWS_COLS" ->
                 Ops("replace", {[GetAtPath(survey, path) EXCEPT !.rows = <<"r">>,
                                                                 !.columns = <<"c">>]})
          [] code \in {"E_SUBSECTION_MISSING_ID", "E_DUPLICATE_SUBSECTION_ID"} ->
                 Ops("replace", {"MS9"})
          [] OTHER -> {}

\* The documents under repair: questions with faults in id, text, type and
\* options, alone, in pairs, and with a duplicate in DEMOGRAPHICS
FaultyQuestions ==
    {Q(id, type, text, options) :
        id \in {"Q1", AbsentStr, ""},
        type \in {"single_choice", "open_ended", "matrix", "grid", AbsentStr},
        text \in {TextPlain, ""},
        options \in {<<>>, <<"A">>}}

RepairDocs ==
    {Survey(RequiredTopLevelKeys, <<>>, <<q>>, subs, dem, <<>>) :
        q \in FaultyQuestions,
        subs \in {<<SubSection("MS1", <<PlainQ("Q2")>>)>>,
                  <<SubSection("", <<PlainQ("Q2")>>),
                    SubSection("MS1", <<PlainQ("Q1"), Q("Q3", "grid", "", <<>>)>>)>>},
        dem \in {<<>>, <<Q("Q1", "single_choice", "", <<>>)>>}}
    \cup {Survey(keys, <<>>, <<PlainQ("Q1")>>, <<>>, <<>>, <<>>) :
            keys \in {<<"SCREENER", "MAIN_SECTION", "FLOW", "DIMENSION_COVERAGE_SUMMARY">>,
                      <<"STUDY_METADATA", "SCREENER", "MAIN_SECTION", "DEMOGRAPHICS",
                        "FLOW">>}}

InitRepair ==
    /\ docs \in {<<d>> : d \in RepairDocs}
    /\ nsurvey = <<>> /\ patch = PatchIdle
    /\ runs = <<>> /\ brief = NoBrief
    /\ caller = [before |-> <<>>, after |-> <<>>]
    /\ assets = NoAssets /\ routing = RoutingIdle /\ batch = BatchIdle /\ render = RenderIdle /\ loi = LoiIdle

\* normalised, issues = validate_and_normalise(Current)
Normalise ==
    /\ Len(nsurvey) < Len(docs)
    /\ \E n \in {ValidateAndNormalise(Current)} :
          nsurvey' = Append(nsurvey, [survey |-> Current, normalised |-> n.survey,
                                      issues |-> n.issues])
    /\ UNCHANGED <<docs, runs, brief, caller, assets, loi, patch, routing, batch, render>>

\* apply_json_patch(Current, [op]) with an op that repairs one issue of the
\* last run
RepairIssue ==
    /\ Len(nsurvey) = Len(docs)
    /\ Len(docs) <= MaxRepairs
    /\ \E i \in DOMAIN nsurvey[Len(nsurvey)].issues :
          LET issue == nsurvey[Len(nsurvey)].issues[i]
          IN  \E op \in RepairOps(Current, issue) :
                 \E after \in {PatchedSurvey(Current, op)} :
                    /\ docs' = Append(docs, after)
                    /\ patch' = [doc |-> Current, ops |-> <<op>>, status |-> "returned",
                                 after |-> after, issue |-> issue]
    /\ UNCHANGED <<runs, brief, caller, nsurvey, assets, loi, routing, batch, render>>

NextRepair == Normalise \/ RepairIssue

SpecRepair == InitRepair /\ [][NextRepair]_vars

\* The patched document has been normalised again
Renormalised == Len(docs) >= 2 /\ Len(nsurvey) = Len(docs)

FingerprintsOf(issues) == {issues[i].issue_fingerprint : i \in DOMAIN issues}

\* The issues the repaired run reported besides the repaired one
OtherIssues ==
    LET before == nsurvey[Len(nsurvey) - 1].issues
    IN  {before[i] : i \in {j \in DOMAIN before :
            before[j].issue_fingerprint # patch.issue.issue_fingerprint}}

\* C15: after an issue is repaired by a replace or add at its json_path, the
\* next run of validate_and_normalise does not report it and reports every
\* other issue of the previous run again with the same issue_fingerprint.
FingerprintsSurviveRepair ==
    Renormalised =>
        LET after == FingerprintsOf(nsurvey[Len(nsurvey)].issues)
        IN  /\ patch.issue.issue_fingerprint \notin after
            /\ \A y \in OtherIssues : y.issue_fingerprint \in after

\* The repaired issue is not reported again
RepairedIssueIsGone ==
    Renormalised =>
        patch.issue.issue_fingerprint \notin FingerprintsOf(nsurvey[Len(nsurvey)].issues)

\* The issues of questions other than the repaired one keep their fingerprint
OtherQuestionsKeepFingerprints ==
    Renormalised =>
        \A y \in OtherIssues :
            (Len(y.json_path) >= 3 /\ Len(patch.issue.json_path) >= 3
             /\ ~IsPrefix(SubSeq(patch.issue.json_path, 1, Len(patch.issue.json_path) - 1),
                          y.json_path)
             /\ ~IsPrefix(y.json_path, patch.issue.json_path))
                => y.issue_fingerprint \in FingerprintsOf(nsurvey[Len(nsurvey)].issues)


-----------------------------------------------------------------------------
(* Duplicate question ids in validate_and_normalise *)

\* The E_DUPLICATE_QUESTION_ID issues of the run that name the question at path
DuplicateIssuesAt(issues, path) ==
    {i \in DOMAIN issues :
        /\ issues[i].error_code = "E_DUPLICATE_QUESTION_ID"
        /\ issues[i].json_path = Append(path, "question_id")}

\* Question i of the walk has the question_id of an earlier question
RepeatsEarlierId(walk, i) ==
    \E j \in 1..(i - 1) : GetStr(walk[j].q.question_id) = GetStr(walk[i].q.question_id)

\* C16: walking SCREENER, the sub_sections in order and DEMOGRAPHICS,
\* validate_and_normalise reports E_DUPLICATE_QUESTION_ID once for each question
\* whose question_id is that of an earlier question and for no other question;
\* a document without such an issue has pairwise distinct question_ids.
DuplicateIdsFlaggedExactly ==
    nsurvey # <<>> /\ HasRequiredKeys(nsurvey[1].survey) =>
        LET walk == QuestionsWithPaths(nsurvey[1].survey)
            issues == nsurvey[1].issues
            dups == {i \in DOMAIN issues : issues[i].error_code = "E_DUPLICATE_QUESTION_ID"}
        IN  /\ \A i \in DOMAIN walk :
                  Cardinality(DuplicateIssuesAt(issues, walk[i].path))
                     = IF RepeatsEarlierId(walk, i) THEN 1 ELSE 0
            /\ Cardinality(dups) = Cardinality({i \in DOMAIN walk : RepeatsEarlierId(walk, i)})
            /\ dups = {} =>
                  \A i, j \in DOMAIN walk :
                      i # j => GetStr(walk[i].q.question_id) # GetStr(walk[j].q.question_id)

\* A DEMOGRAPHICS question repeating the id of a SCREENER question was flagged,
\* and the SCREENER question was not
LaterOccurrenceWasFlagged ==
    /\ nsurvey # <<>> /\ HasRequiredKeys(nsurvey[1].survey)
    /\ Len(nsurvey[1].survey.SCREENER.questions) >= 1
    /\ Len(nsurvey[1].survey.DEMOGRAPHICS.questions) >= 1
    /\ nsurvey[1].survey.SCREENER.questions[1].question_id
          = nsurvey[1].survey.DEMOGRAPHICS.questions[1].question_id
    /\ DuplicateIssuesAt(nsurvey[1].issues, <<"DEMOGRAPHICS", "questions", "0">>) # {}
    /\ DuplicateIssuesAt(nsurvey[1].issues, <<"SCREENER", "questions", "0">>) = {}


-----------------------------------------------------------------------------
(* Missing top-level keys *)

\* C17: with a required top-level key missing, validate_and_normalise returns
\* one E_TOPLEVEL_MISSING_KEY issue for each missing key and no other issue,
\* and the document it returns equals the input.
MissingKeyShortCircuits ==
    nsurvey # <<>> /\ ~HasRequiredKeys(nsurvey[1].survey) =>
        LET issues == nsurvey[1].issues
            absent == Range(RequiredTopLevelKeys) \ Range(nsurvey[1].survey.keys)
        IN  /\ \A i \in DOMAIN issues : issues[i].error_code = "E_TOPLEVEL_MISSING_KEY"
            /\ \A k \in absent :
                  Cardinality({i \in DOMAIN issues : issues[i].json_path = <<k>>}) = 1
            /\ Len(issues) = Cardinality(absent)
            /\ nsurvey[1].normalised = nsurvey[1].survey

\* Two keys were missing from a document whose questions the walk would have
\* changed and reported
TwoKeysMissingFromFaultyDocument ==
    /\ nsurvey # <<>>
    /\ Cardinality(Range(RequiredTopLevelKeys) \ Range(nsurvey[1].survey.keys)) = 2
    /\ Len(nsurvey[1].issues) = 2
    /\ LET full == NormaliseCopy([nsurvey[1].survey EXCEPT !.keys = RequiredTopLevelKeys])
       IN  /\ full.issues # <<>>
           /\ full.survey.SCREENER # nsurvey[1].survey.SCREENER


-----------------------------------------------------------------------------
(* CORE_005 screener_prefer_not_to_say *)

\* The document and the results as _check_screener_prefer_not_to_say finds
\* them: after CORE_001 to CORE_004
BeforeCore005(survey) ==
    LET s1 == Then(St(survey, <<>>), CheckStimulusDisplayArtefacts)
        s2 == Then(s1, CheckQuestionTypeFieldCompatibility)
        s3 == Then(s2, CheckOptionsArrays)
    IN  Then(s3, CheckQuestionIdUniqueness)

\* The option reads "prefer not to say" when capitals are ignored
NamesPreferNotToSay(opt) ==
    opt \in {"Prefer not to say", "prefer not to say", "PREFER NOT TO SAY"}
    \/ opt = "I would prefer  not to say"

\* The question has options and none of them names "prefer not to say"
NeedsPreferNotToSay(q) ==
    /\ q.options # Absent /\ q.options # None /\ q.options # <<>>
    /\ \A i \in DOMAIN q.options : ~NamesPreferNotToSay(q.options[i])

-----------------------------------------------------------------------------
(* render_survey.py: _build_routing_index *)

(***************************************************************************)
(* A condition or action text is kept as the sequence of its words, the    *)
(* blanks between them left out; ";" is a word of its own.  The words hold *)
(* letters, digits and "_" only.  rule_metadata, the second value          *)
(* returned, is left out.                                                  *)
(***************************************************************************)

\* str.lower() of the words the patterns look for
LowerWord(w) ==
    CASE w \in {"Show", "SHOW", "show"} -> "show"
      [] w \in {"Skip", "SKIP", "skip"} -> "skip"
      [] w \in {"Terminate", "TERMINATE", "terminate"} -> "terminate"
      [] w \in {"Only", "ONLY", "only"} -> "only"
      [] w \in {"Display", "display"} -> "display"
      [] w \in {"Artefact", "artefact"} -> "artefact"
      [] w \in {"With", "with"} -> "with"
      [] w \in {"Question", "question"} -> "question"
      [] OTHER -> w

\* The words that \b[A-Z][A-Z0-9_]*\b finds: capitals, digits and "_" after a
\* first capital
IsUpperToken(w) ==
    w \in {"SCR_Q1", "MS1_Q2", "MS1_Q3", "MS9_Q9", "A1", "SHOW", "SKIP", "TERMINATE", "ONLY"}

\* What ([A-Z]\d+) takes from the start of a word under re.IGNORECASE, NoneStr
\* when the word does not start with a letter and a digit
ArtefactIdOf(w) == IF w \in {"A1", "a1"} THEN w ELSE NoneStr

\* str(rule.get(key, "")) of a rule_id, followed by strip()
RuleIdText(id) ==
    CASE id = AbsentStr -> ""
      [] id = NoneStr -> "None"
      [] id = " R1 " -> "R1"
      [] OTHER -> id

\* sorted(): the rule ids in the order of Python's string comparison
RuleIdOrder == <<"", "None", "R1", "R10", "R2">>

\* The list as the clauses appended to it, repeats and all
AsAppended(ids) == ids

\* sorted(set(ids))
SortedDistinct(ids) == SelectSeq(RuleIdOrder, LAMBDA r : r \in Range(ids))

\* action.split(";") with each part stripped and the empty parts dropped
RECURSIVE SplitClauses(_, _)
SplitClauses(words, clause) ==
    IF words = <<>> THEN (IF clause = <<>> THEN <<>> ELSE <<clause>>)
    ELSE IF Head(words) = ";"
    THEN (IF clause = <<>> THEN <<>> ELSE <<clause>>) \o SplitClauses(Tail(words), <<>>)
    ELSE SplitClauses(Tail(words), Append(clause, Head(words)))

\* find_qids(text): the tokens of the text that are question ids, in text order
FindQids(words, qidSet) == SelectSeq(words, LAMBDA w : IsUpperToken(w) /\ w \in qidSet)

\* apply_clause: the question ids of the clause without its words "only"
ClauseQids(clause, qidSet) ==
    FindQids(SelectSeq(clause, LAMBDA w : LowerWord(w) # "only"), qidSet)

\* The bucket of a clause: ^show\s+ and ^skip\s+ need a blank after the word,
\* so a word has to follow in the stripped clause; ^terminate\b does not
ClauseBucket(clause) ==
    CASE Len(clause) >= 2 /\ LowerWord(clause[1]) = "show" -> "shown_by_rules"
      [] Len(clause) >= 2 /\ LowerWord(clause[1]) = "skip" -> "skipped_by_rules"
      [] LowerWord(clause[1]) = "terminate" -> "terminate_by_rules"
      [] OTHER -> "none"

\* re.search of Display\s+artefact\s+([A-Z]\d+).*with.*question\s+([A-Z0-9_]+)
\* in the action, ignoring case: the leftmost "Display artefact X" that has a
\* "with" and then a "question Y" behind it, and the last such Y
DisplayMatch(action) ==
    LET n == Len(action)
        QuestionAt(i, j) ==
            /\ j + 1 <= n /\ LowerWord(action[j]) = "question" /\ action[j + 1] # ";"
            /\ \E k \in (i + 3)..(j - 1) : LowerWord(action[k]) = "with"
        Starts == {i \in 1..n :
                      /\ i + 2 <= n
                      /\ LowerWord(action[i]) = "display"
                      /\ LowerWord(action[i + 1]) = "artefact"
                      /\ ArtefactIdOf(action[i + 2]) # NoneStr
                      /\ \E j \in (i + 4)..n : QuestionAt(i, j)}
    IN  IF Starts = {} THEN [found |-> FALSE, artefact_id |-> NoneStr, question_id |-> NoneStr]
        ELSE LET i == CHOOSE s \in Starts : \A o \in Starts : s <= o
                 j == CHOOSE e \in (i + 4)..n :
                         QuestionAt(i, e) /\ \A o \in (i + 4)..n : QuestionAt(i, o) => o <= e
             IN  [found |-> TRUE, artefact_id |-> ArtefactIdOf(action[i + 2]),
                  question_id |-> action[j + 1]]

\* ensure(qid)
NewBuckets ==
    [shown_by_rules |-> <<>>, skipped_by_rules |-> <<>>, terminate_by_rules |-> <<>>,
     displays_artefact |-> NoneStr]
Ensure(index, qid) ==
    IF qid \in DOMAIN index THEN index ELSE [q \in DOMAIN index \cup {qid} |->
                                               IF q = qid THEN NewBuckets ELSE index[q]]

\* ensure(qid)[bucket].append(rule_id) for each of the qids, in their order
RECURSIVE AppendToBucket(_, _, _, _)
AppendToBucket(index, qids, bucket, ruleId) ==
    IF qids = <<>> THEN index
    ELSE LET Add(ix) == [ix EXCEPT ![Head(qids)][bucket] = Append(@, ruleId)]
         IN  AppendToBucket(Then(Ensure(index, Head(qids)), Add), Tail(qids), bucket, ruleId)

\* The clauses of one rule from clause c on
RECURSIVE ApplyClauses(_, _, _, _, _)
ApplyClauses(index, rule, clauses, c, qidSet) ==
    IF c > Len(clauses) THEN index
    ELSE LET bucket == ClauseBucket(clauses[c])
             qids == IF bucket = "terminate_by_rules" THEN FindQids(rule.condition, qidSet)
                     ELSE ClauseQids(clauses[c], qidSet)
             Rest(ix) == ApplyClauses(ix, rule, clauses, c + 1, qidSet)
         IN  IF bucket = "none" THEN ApplyClauses(index, rule, clauses, c + 1, qidSet)
             ELSE Then(AppendToBucket(index, qids, bucket, RuleIdText(rule.rule_id)), Rest)

\* The second loop over the rules, from rule r on; a rule that is no dict is
\* passed over
RECURSIVE ApplyRules(_, _, _, _)
ApplyRules(index, rules, r, qidSet) ==
    IF r > Len(rules) THEN index
    ELSE IF ~rules[r].is_dict THEN ApplyRules(index, rules, r + 1, qidSet)
    ELSE LET rule == rules[r]
             Shown(m) ==
                 IF m.found
                 THEN LET Set(ix) == [ix EXCEPT ![m.question_id].displays_artefact =
                                                    m.artefact_id]
                      IN  Then(Ensure(index, m.question_id), Set)
                 ELSE index
             Clauses(ix) == ApplyClauses(ix, rule, SplitClauses(rule.action, <<>>), 1, qidSet)
             Rest(ix) == ApplyRules(ix, rules, r + 1, qidSet)
         IN  Then(Then(Then(DisplayMatch(rule.action), Shown), Clauses), Rest)

\* _build_routing_index(flow, question_ids): the routing_index, a function
\* from the question ids that have an entry to their buckets
BuildRoutingIndexOf(flow, questionIds) ==
    IF ~flow.rules_is_list THEN <<>>
    ELSE LET Sort(ix) ==
                 [q \in DOMAIN ix |->
                     [ix[q] EXCEPT !.shown_by_rules = SortedDistinct(@),
                                   !.skipped_by_rules = SortedDistinct(@),
                                   !.terminate_by_rules = SortedDistinct(@)]]
         IN  Then(ApplyRules(<<>>, flow.routing_rules, 1, Range(questionIds)), Sort)

-----------------------------------------------------------------------------
(* The flows and question ids _build_routing_index is called on *)

MaxRules == 2       \* routing rules of a flow

Rule(id, condition, action) ==
    [is_dict |-> TRUE, rule_id |-> id, condition |-> condition, action |-> action]
NotADict == [is_dict |-> FALSE, rule_id |-> "", condition |-> <<>>, action |-> <<>>]

RuleConditions ==
    {<<"SCR_Q1", "=", "No">>,
     <<"SCR_Q1", "=", "Yes", "AND", "MS1_Q2", "=", "A1">>,
     <<"MS9_Q9", "=", "No">>,
     <<>>}

RuleActions ==
    {<<"Skip", "MS1_Q2">>,
     <<"show", "only", "MS1_Q3", ";", "SKIP", "MS1_Q2", "MS1_Q2">>,
     <<"Terminate">>,
     <<"Show", "MS9_Q9", "and", "MS1_Q2", ";", ";", "terminate", "survey">>,
     <<"Skip">>,
     <<"Display", "artefact", "A1", "with", "question", "MS1_Q3">>,
     <<"Go", "to", "MS1_Q2", ";", "Skip", "ms1_q2">>,
     <<"display", "artefact", "a1", "with", "question", "q7", ";",
       "Show", "SCR_Q1", "with", "question", "MS1_Q2">>,
     <<"Skipping", "MS1_Q2">>,
     <<>>}

Rules ==
    {Rule(id, c, a) : id \in {"R1", "R2", "R10", " R1 ", AbsentStr, NoneStr},
                      c \in RuleConditions, a \in RuleActions}
    \cup {NotADict}

FirstRules ==
    {Rule(id, c, a) : id \in {"R1", "R2"},
                      c \in {<<"SCR_Q1", "=", "No">>, <<>>},
                      a \in {<<"Skip", "MS1_Q2">>, <<"Terminate">>,
                             <<"Show", "MS9_Q9", "and", "MS1_Q2", ";", ";", "terminate",
                               "survey">>,
                             <<"Display", "artefact", "A1", "with", "question", "MS1_Q3">>}}

Flows ==
    {[rules_is_list |-> TRUE, routing_rules |-> rs] :
        rs \in {<<>>} \cup {<<r>> : r \in Rules}
               \cup (IF MaxRules >= 2 THEN {<<f, r>> : f \in FirstRules, r \in Rules} ELSE {})}
    \cup {[rules_is_list |-> FALSE, routing_rules |-> <<>>]}

QuestionIdLists ==
    {<<"SCR_Q1", "MS1_Q2", "MS1_Q3">>,
     <<"SCR_Q1", "MS1_Q2", "MS1_Q2">>,
     <<"MS1_Q2", "ms1_q2", "q7">>}

InitRouting ==
    /\ routing \in {[flow |-> f, question_ids |-> q, built |-> FALSE, index |-> <<>>] :
                       f \in Flows, q \in QuestionIdLists}
    /\ docs = <<>> /\ runs = <<>> /\ brief = NoBrief
    /\ caller = [before |-> <<>>, after |-> <<>>]
    /\ nsurvey = <<>> /\ assets = NoAssets /\ loi = LoiIdle /\ patch = PatchIdle
    /\ batch = BatchIdle /\ render = RenderIdle

\* routing_index, rule_metadata = _build_routing_index(flow, question_ids)
BuildRoutingIndex ==
    /\ ~routing.built
    /\ \E ix \in {BuildRoutingIndexOf(routing.flow, routing.question_ids)} :
          routing' = [routing EXCEPT !.built = TRUE, !.index = ix]
    /\ UNCHANGED <<docs, runs, brief, caller, nsurvey, assets, loi, patch, batch, render>>

NextRouting == BuildRoutingIndex

SpecRouting == InitRouting /\ [][NextRouting]_vars

-----------------------------------------------------------------------------
(* The routing index and the clauses of the rules *)

\* Words i..j of the action are a clause: ";" or an end of the text on both
\* sides and no ";" inside
IsClause(action, i, j) ==
    /\ i <= j
    /\ (i = 1 \/ action[i - 1] = ";")
    /\ (j = Len(action) \/ action[j + 1] = ";")
    /\ \A k \in i..j : action[k] # ";"

\* q is written in the words as a token of capitals, digits and "_"
Names(words, q) == IsUpperToken(q) /\ \E k \in DOMAIN words : words[k] = q

\* A clause of the rule's action starts with the verb and names q
ClauseWith(rule, verbs, q) ==
    \E i, j \in DOMAIN rule.action :
        /\ IsClause(rule.action, i, j)
        /\ rule.action[i] \in verbs
        /\ Names(SubSeq(rule.action, i + 1, j), q)

\* A clause of the rule's action starts with "terminate"
TerminateClause(rule) ==
    \E i, j \in DOMAIN rule.action :
        /\ IsClause(rule.action, i, j)
        /\ rule.action[i] \in {"Terminate", "TERMINATE", "terminate"}

\* The list of q in the index; a question without entry has empty lists
BucketOf(q, bucket) == IF q \in DOMAIN routing.index THEN routing.index[q][bucket] ELSE <<>>

RulesNamed(id) ==
    {r \in Range(routing.flow.routing_rules) : r.is_dict /\ RuleIdText(r.rule_id) = id}

NoRepeats(s) == \A i, j \in DOMAIN s : i # j => s[i] # s[j]

\* C19: a rule's id is in shown_by_rules (skipped_by_rules) of q exactly when
\* q is a known question id and a clause of the rule's action starts with
\* "show" ("skip") and names q; it is in terminate_by_rules of q exactly when q
\* is a known question id named in the rule's condition and a clause starts
\* with "terminate"; no list holds a rule id twice.
RoutingIndexFollowsClauses ==
    routing.built =>
        \A q \in DOMAIN routing.index \cup Range(routing.question_ids) :
            LET known == q \in Range(routing.question_ids)
            IN  /\ \A id \in Range(RuleIdOrder) :
                      /\ id \in Range(BucketOf(q, "shown_by_rules"))
                            <=> (known /\ \E r \in RulesNamed(id) :
                                              ClauseWith(r, {"Show", "SHOW", "show"}, q))
                      /\ id \in Range(BucketOf(q, "skipped_by_rules"))
                            <=> (known /\ \E r \in RulesNamed(id) :
                                              ClauseWith(r, {"Skip", "SKIP", "skip"}, q))
                      /\ id \in Range(BucketOf(q, "terminate_by_rules"))
                            <=> (known /\ \E r \in RulesNamed(id) :
                                              TerminateClause(r) /\ Names(r.condition, q))
                /\ \A b \in {"shown_by_rules", "skipped_by_rules", "terminate_by_rules"} :
                      /\ NoRepeats(BucketOf(q, b))
                      /\ Range(BucketOf(q, b)) \subseteq Range(RuleIdOrder)

\* Rule R1 with condition SCR_Q1 = No and action Skip MS1_Q2 has given
\* skipped_by_rules = ["R1"] for MS1_Q2
SkipRuleIndexed ==
    /\ routing.built
    /\ routing.flow.routing_rules = <<Rule("R1", <<"SCR_Q1", "=", "No">>, <<"Skip", "MS1_Q2">>)>>
    /\ routing.question_ids = <<"SCR_Q1", "MS1_Q2", "MS1_Q3">>
    /\ routing.index["MS1_Q2"].skipped_by_rules = <<"R1">>
    /\ routing.index["MS1_Q2"].shown_by_rules = <<>>


-----------------------------------------------------------------------------
(* The scale of a likelihood-to-recommend question *)

\* The check ids of _run_core_validators, which runs under every brief
CoreCheckIds ==
    {"CORE_001", "CORE_002", "CORE_003", "CORE_004", "CORE_005", "CORE_006", "CORE_007",
     "CORE_008", "CORE_009", "CORE_010", "CORE_011"}

\* The questions of the main section of pass k's document that match the NPS
\* pattern and have other than 11 options
OffScaleNps(k) ==
    {q \in UNION {Range(docs[k].MAIN_SECTION.sub_sections[s].questions) :
                     s \in DOMAIN docs[k].MAIN_SECTION.sub_sections} :
        /\ IsNpsText(q.question_text)
        /\ Len(GetOrEmpty(q.options)) # NpsPoints}

ErrorsAbout(k, q) ==
    {r \in Range(runs[k]) : r.severity = "error" /\ r.question_id = q.question_id}

\* C20: every pass over a survey whose main section holds an NPS-pattern
\* question with other than 11 options reports an error of a core check for
\* that question, whatever skills the brief lists.
NpsScaleIsCoreError ==
    \A k \in DOMAIN runs :
        \A q \in OffScaleNps(k) : \E r \in ErrorsAbout(k, q) : r.check_id \in CoreCheckIds

\* The error for such a question is the METH_005 result of the "nps-csat" skill
\* check: present when the brief lists the skill, absent when it does not.
NpsScaleErrorFollowsSkill ==
    \A k \in DOMAIN runs :
        \A q \in OffScaleNps(k) :
            ("nps-csat" \in brief.skills) <=> (\E r \in ErrorsAbout(k, q) : r.check_id = "METH_005")

\* A pass under a brief without the skill has met an NPS question of 5 options
\* and reported no error about it
FivePointNpsWithoutError ==
    \E k \in DOMAIN runs :
        \E q \in OffScaleNps(k) :
            /\ "nps-csat" \notin brief.skills
            /\ q.options = FivePoints
            /\ ErrorsAbout(k, q) = {}

\* A pass under a brief with the skill has reported METH_005 as the only error
\* about an NPS question of 5 options
FivePointNpsMethodologyError ==
    \E k \in DOMAIN runs :
        \E q \in OffScaleNps(k) :
            /\ "nps-csat" \in brief.skills
            /\ q.options = FivePoints
            /\ {r.check_id : r \in ErrorsAbout(k, q)} = {"METH_005"}


-----------------------------------------------------------------------------
(* The frame of pin_question, exclude_question and reset_question_override *)

\* The slider position stored in loi_config, 50 when there is none
StoredPosition == IF loi.config = <<>> THEN 50 ELSE loi.config[1].slider_position

\* The step leaves the user_override of every question but those named id
OnlyNamedOverrideChanges(id) ==
    /\ Len(loi'.questions) = Len(loi.questions)
    /\ \A i \in DOMAIN loi.questions :
          loi.questions[i].question_id # id =>
              loi'.questions[i].user_override = loi.questions[i].user_override

\* The step gives the question named id the override
NamedOverrideBecomes(id, override) ==
    \A i \in DOMAIN loi.questions :
        loi.questions[i].question_id = id => loi'.questions[i].user_override = override

\* The calculator driven through a sample of slider positions, one inside and
\* one at the end of every tier, between the override calls
SampledPositions == {0, 20, QuickMax, DefaultPosition, StandardMax, 85, DeepMax}

NextOverrides ==
    \/ AddLoiConfig(DefaultPosition)
    \/ \E p \in SampledPositions : UpdateLoiConfig(p)
    \/ \E id \in QuestionIds : PinQuestion(id)
    \/ \E id \in QuestionIds : ExcludeQuestion(id)
    \/ \E id \in QuestionIds : ResetQuestionOverride(id)

SpecOverrides == InitLOI /\ [][NextOverrides]_vars

\* C21: pin_question, exclude_question and reset_question_override give the
\* named question its user_override ("pinned", "excluded", "none") and change
\* no other question's user_override, so a call naming an unknown id changes
\* none; the loi_config they return has the slider position that was stored
\* before the call, 50 when none was stored.
OverrideCallsKeepFrame ==
    [][\A id \in QuestionIds :
          /\ (PinQuestion(id) \/ ExcludeQuestion(id) \/ ResetQuestionOverride(id)) =>
                /\ loi'.config # <<>>
                /\ loi'.config[1].slider_position = StoredPosition
                /\ OnlyNamedOverrideChanges(id)
          /\ PinQuestion(id) => NamedOverrideBecomes(id, "pinned")
          /\ ExcludeQuestion(id) => NamedOverrideBecomes(id, "excluded")
          /\ ResetQuestionOverride(id) => NamedOverrideBecomes(id, "none")]_vars

\* C21 happens: at stored position 20 the first question is pinned, and the
\* second, which the slider hides, has kept its override "none".
PinnedAtStoredPosition ==
    /\ loi.config # <<>>
    /\ loi.config[1].slider_position = 20
    /\ Len(loi.questions) = 2
    /\ loi.questions[1].user_override = "pinned"
    /\ loi.questions[2].user_override = "none"
    /\ loi.questions[2].loi_visibility = "hidden"


-----------------------------------------------------------------------------
(* validate_survey.py: main(), the batch entry point *)

\* sum(1 for r in results if r.severity == severity)
CountSeverity(results, severity) == Len(SelectSeq(results, LAMBDA r : r.severity = severity))

\* The log main() builds from the results
BuildLog(results) ==
    [status  |-> IF CountSeverity(results, "error") > 0 THEN "failed" ELSE "passed",
     summary |-> [errors     |-> CountSeverity(results, "error"),
                  warnings   |-> CountSeverity(results, "warning"),
                  auto_fixes |-> CountSeverity(results, "auto_fix"),
                  advisories |-> CountSeverity(results, "advisory")],
     checks  |-> results]

\* One run of main() with survey_output.json and brief_output.json holding
\* `survey` and `b` when they exist: sys.exit(1) when a file is missing; an
\* exception of validate() ends the process with status 1 before anything is
\* written; else both files are written and the process exits with 1 when a
\* result is an error, and returns (status 0) when none is.
MainOf(surveyExists, briefExists, survey, b) ==
    LET Ended(how, code, patched, log) ==
            [status |-> how, exit_code |-> code, patched |-> patched, log |-> log,
             survey_exists |-> surveyExists, brief_exists |-> briefExists]
    IN  IF ~surveyExists \/ ~briefExists THEN Ended("exited", 1, <<>>, <<>>)
        ELSE IF ~Validatable(survey) THEN Ended("raised", 1, <<>>, <<>>)
        ELSE LET Written(out) ==
                     Ended("exited",
                           IF CountSeverity(out.results, "error") > 0 THEN 1 ELSE 0,
                           <<out.survey>>, <<BuildLog(out.results)>>)
             IN  Then(Validate(ValidatorInit(survey).value, b), Written)

\* python validate_survey.py in a directory where the two input files exist or not
Main ==
    /\ batch.status = "idle"
    /\ \E surveyExists, briefExists \in BOOLEAN :
          \E ended \in {MainOf(surveyExists, briefExists, Current, brief)} : batch' = ended
    /\ UNCHANGED <<docs, runs, brief, caller, nsurvey, assets, loi, patch, routing, render>>

NextMain == Main

SpecMain == Init /\ [][NextMain]_vars

\* The run has ended and found both input files
RanOnBothFiles == batch.status # "idle" /\ batch.survey_exists /\ batch.brief_exists

\* Both output files are there, the exit status is non-zero exactly when a
\* logged check is an error, the log's status is "failed" exactly then, and
\* the four summary counts add up to the number of logged checks
OutputsAgree ==
    /\ batch.patched # <<>>
    /\ batch.log # <<>>
    /\ LET log == batch.log[1]
           failed == \E i \in DOMAIN log.checks : log.checks[i].severity = "error"
       IN  /\ batch.exit_code # 0 <=> failed
           /\ log.status = "failed" <=> failed
           /\ log.status \in {"failed", "passed"}
           /\ log.summary.errors + log.summary.warnings + log.summary.auto_fixes
              + log.summary.advisories = Len(log.checks)

\* C22: every run of main() whose two input files exist writes the patched
\* survey and the validation log, exits with a non-zero status if and only if a
\* result has severity error, logs status "failed" in exactly those runs, and
\* logs four summary counts that add up to the number of logged checks.
MainWritesBothFiles == RanOnBothFiles => OutputsAgree

\* The same for the runs in which validate() returned
MainWritesBothFilesWhenValidateReturns ==
    (RanOnBothFiles /\ batch.status = "exited") => OutputsAgree

\* A run on both files ended by an exception of validate(): nothing written,
\* non-zero status, no result at all
MainRaisedBeforeWriting ==
    /\ RanOnBothFiles
    /\ batch.status = "raised"
    /\ batch.exit_code # 0
    /\ batch.patched = <<>> /\ batch.log = <<>>

\* A run with errors has written both files and then exited with status 1
FailedRunWroteBothFiles ==
    /\ RanOnBothFiles
    /\ batch.status = "exited" /\ batch.exit_code = 1
    /\ batch.patched # <<>>
    /\ batch.log # <<>> /\ batch.log[1].status = "failed"
    /\ batch.log[1].summary.errors >= 1
    /\ batch.log[1].summary.auto_fixes >= 1


-----------------------------------------------------------------------------
(* The place of stimulus_display questions after validate *)

IsStimulus(q) == q.question_type = "stimulus_display"

\* The question_ids of the questions that are not stimulus_display, in list order
OtherIds(questions) ==
    LET others == SelectSeq(questions, LAMBDA q : ~IsStimulus(q))
    IN  [i \in DOMAIN others |-> others[i].question_id]

\* Pass k left subsection s with a stimulus_display first if it has one, and
\* with its other questions in the order of the input
StimulusLeads(k, s) ==
    LET before == docs[k].MAIN_SECTION.sub_sections[s].questions
        after  == docs[k + 1].MAIN_SECTION.sub_sections[s].questions
    IN  /\ (\E i \in DOMAIN after : IsStimulus(after[i])) => IsStimulus(after[1])
        /\ OtherIds(after) = OtherIds(before)

\* C23: after validate, every MAIN_SECTION subsection that contains a
\* stimulus_display question has a stimulus_display question first, and its
\* other questions are in the same relative order as in the input.
StimulusFirstAfterValidate ==
    \A k \in DOMAIN runs :
        \A s \in DOMAIN docs[k + 1].MAIN_SECTION.sub_sections : StimulusLeads(k, s)

\* The same under a brief that does not list "pricing-study", where no
\* Van Westendorp reordering follows the relocation
StimulusFirstWithoutPricing ==
    "pricing-study" \notin brief.skills => StimulusFirstAfterValidate

\* A pass has relocated a stimulus (SEQ_001) and reordered the Van Westendorp
\* questions (METH_001 auto-fix) of the same subsection, and the subsection no
\* longer starts with a stimulus_display
RelocatedStimulusMovedBack ==
    \E k \in DOMAIN runs :
        /\ \E r \in Range(runs[k]) : r.check_id = "SEQ_001" /\ r.severity = "auto_fix"
        /\ \E r \in Range(runs[k]) : r.check_id = "METH_001" /\ r.severity = "auto_fix"
        /\ \E s \in DOMAIN docs[k + 1].MAIN_SECTION.sub_sections :
              LET after == docs[k + 1].MAIN_SECTION.sub_sections[s].questions
              IN  /\ \E i \in DOMAIN after : IsStimulus(after[i])
                  /\ ~IsStimulus(after[1])


-----------------------------------------------------------------------------
(* validate keeps the questions of every section *)

\* How many questions of the list have the question_id
CountId(questions, id) == Len(SelectSeq(questions, LAMBDA q : q.question_id = id))

\* The two lists hold the same question_ids, each as many times
SameIds(before, after) ==
    /\ Len(before) = Len(after)
    /\ \A i \in DOMAIN before :
          CountId(after, before[i].question_id) = CountId(before, before[i].question_id)

\* Pass k returned every section with the question_ids it was given
PassKeepsQuestions(k) ==
    /\ SameIds(docs[k].SCREENER.questions, docs[k + 1].SCREENER.questions)
    /\ SameIds(docs[k].DEMOGRAPHICS.questions, docs[k + 1].DEMOGRAPHICS.questions)
    /\ Len(docs[k + 1].MAIN_SECTION.sub_sections) = Len(docs[k].MAIN_SECTION.sub_sections)
    /\ \A s \in DOMAIN docs[k].MAIN_SECTION.sub_sections :
          SameIds(docs[k].MAIN_SECTION.sub_sections[s].questions,
                  docs[k + 1].MAIN_SECTION.sub_sections[s].questions)

\* C24: validate never adds or removes a question: for SCREENER, DEMOGRAPHICS
\* and every MAIN_SECTION subsection the multiset of question_ids of the
\* patched survey equals that of the input, the reordering auto-fixes only
\* permuting the questions of their subsection.
ValidateKeepsQuestions == \A k \in DOMAIN runs : PassKeepsQuestions(k)

\* The same for the passes that made no Van Westendorp reordering
ValidateKeepsQuestionsUnlessReordered ==
    \A k \in DOMAIN runs :
        (\A r \in Range(runs[k]) : ~(r.check_id = "METH_001" /\ r.severity = "auto_fix"))
            => PassKeepsQuestions(k)

\* A pass with the Van Westendorp auto-fix returned a subsection of four
\* questions for one of five
ReorderingDroppedQuestion ==
    \E k \in DOMAIN runs :
        /\ \E r \in Range(runs[k]) : r.check_id = "METH_001" /\ r.severity = "auto_fix"
        /\ Len(docs[k].MAIN_SECTION.sub_sections[1].questions) = 5
        /\ Len(docs[k + 1].MAIN_SECTION.sub_sections[1].questions) = 4


-----------------------------------------------------------------------------
(* One pass surfaces every error *)

\* The (check_id, question_id) pairs of the error results
ErrorKeys(results) ==
    {<<results[i].check_id, results[i].question_id>> :
        i \in {j \in DOMAIN results : results[j].severity = "error"}}

\* C25: validating the patched survey of a pass again, under the same brief,
\* reports no error whose (check_id, question_id) the first pass had not
\* already reported as an error.
SecondPassHasNoNewError ==
    \A k \in 1..(Len(runs) - 1) : ErrorKeys(runs[k + 1]) \subseteq ErrorKeys(runs[k])

\* The same for the passes whose patched survey is the survey they were given
UnchangedSurveyHasNoNewError ==
    \A k \in 1..(Len(runs) - 1) :
        docs[k + 1] = docs[k] => ErrorKeys(runs[k + 1]) \subseteq ErrorKeys(runs[k])

\* The first pass cleaned a question's options (CORE_003 auto_fix) without a
\* CORE_002 error for it, and the second pass reports that error
CleanedOptionsFailSecondPass ==
    /\ Len(runs) = 2
    /\ \E id \in AllQuestionIds(docs[1]) :
          /\ \E r \in Range(runs[1]) :
                r.check_id = "CORE_003" /\ r.severity = "auto_fix" /\ r.question_id = id
          /\ <<"CORE_002", id>> \notin ErrorKeys(runs[1])
          /\ <<"CORE_002", id>> \in ErrorKeys(runs[2])


-----------------------------------------------------------------------------
(* The LOI state is a function of the slider position and the overrides *)

\* The survey carrying the user_override values as they stand, and no
\* loi_visibility of an earlier call
CarryingOverridesOnly ==
    [i \in DOMAIN loi.questions |-> [loi.questions[i] EXCEPT !.loi_visibility = AbsentStr]]

\* The questions and loi_config that one update_loi_config at the stored
\* position produces on that survey
OneUpdateAtStoredPosition == Recalculate(CarryingOverridesOnly, loi.config[1].slider_position)

ResetRestoresSliderVisibility ==
    [][\A id \in QuestionIds :
          (/\ loi.config # <<>>
           /\ \E i \in DOMAIN loi.questions :
                 loi.questions[i].question_id = id /\ loi.questions[i].user_override = "pinned"
           /\ ResetQuestionOverride(id))
          => \A i \in DOMAIN loi.questions :
                 loi.questions[i].question_id = id =>
                     loi'.questions[i].loi_visibility
                         = VisibilityBySliderOnly(loi.questions, loi.config[1].slider_position,
                                                  loi.questions[i])]_vars

-----------------------------------------------------------------------------
(* The snap point and the tier that governs visibility *)

\* The visible questions of the priority that are not pinned
VisibleUnpinned(priority) ==
    {i \in DOMAIN loi.questions :
        /\ loi.questions[i].priority = priority
        /\ loi.questions[i].loi_visibility = "visible"
        /\ loi.questions[i].user_override # "pinned"}

\* The reported snap point names the tier that decided the visibilities
SnapPointNamesTier ==
    /\ loi.config[1].snap_point = "quick" =>
          VisibleUnpinned("recommended") = {} /\ VisibleUnpinned("optional") = {}
    /\ loi.config[1].snap_point = "standard" => VisibleUnpinned("optional") = {}
    /\ VisibleUnpinned("optional") # {} => loi.config[1].snap_point = "deep"

\* C27: whenever the loi_config reports snap_point "quick", only required or
\* pinned questions are visible; whenever it reports "standard", no optional
\* question is visible unless pinned; optional questions are visible only at
\* positions whose snap_point is "deep".
SnapPointGovernsVisibility == loi.config # <<>> => SnapPointNamesTier

\* The same at every slider position but the last of the standard tier
SnapPointGovernsOffTheBoundary ==
    (loi.config # <<>> /\ loi.config[1].slider_position # StandardMax) => SnapPointNamesTier

\* At position 70 the loi_config reports "standard" and an optional question
\* without override is visible
OptionalVisibleAtStandard ==
    /\ loi.config # <<>>
    /\ loi.config[1].slider_position = 70
    /\ loi.config[1].snap_point = "standard"
    /\ \E i \in VisibleUnpinned("optional") : loi.questions[i].user_override = "none"


-----------------------------------------------------------------------------
(* Rendering the issue-free documents *)

\* build_static_assets was called on a document without issue
BuiltFromIssueFree == nsurvey # <<>> /\ nsurvey[1].issues = <<>>

\* A question of the document carries a quota attribute and a quota group that
\* is a bare string
HasStringQuotaGroup(survey) ==
    \E i \in DOMAIN QuestionsRenderOrder(survey) :
        LET q == QuestionsRenderOrder(survey)[i]
        IN  TruthyStr(q.quota_attribute)
            /\ \E g \in DOMAIN q.quota_groups : q.quota_groups[g].kind = "str"

\* C28: render_ui_spec completes on every document for which
\* validate_and_normalise reported no issue, so build_static_assets returns a
\* ui_spec for it, whether or not a validation pass has normalised the quota
\* groups before.
RenderCompletesOnIssueFree ==
    BuiltFromIssueFree => (assets.status = "returned" /\ assets.ui_spec # <<>>)

\* The same for the documents whose quota groups are all objects
RenderCompletesOnObjectGroups ==
    (BuiltFromIssueFree /\ ~HasStringQuotaGroup(nsurvey[1].survey))
        => (assets.status = "returned" /\ assets.ui_spec # <<>>)

\* build_static_assets raised on an issue-free document that no validation
\* pass had seen
RenderRaisedBeforeValidation ==
    /\ BuiltFromIssueFree
    /\ runs = <<>>
    /\ assets.status = "raised"
    /\ HasStringQuotaGroup(nsurvey[1].survey)

\* build_static_assets raised on the patched document of a validation pass
RenderRaisedAfterValidation ==
    /\ BuiltFromIssueFree
    /\ assets.status = "raised"
    /\ \E k \in 2..Len(docs) : nsurvey[1].survey = docs[k] /\ HasStringQuotaGroup(docs[k])


-----------------------------------------------------------------------------
(* apply_json_patch when an op raises *)

\* The call has ended by an exception
PatchRaised == patch.status \notin {"idle", "returned"}

\* C29: apply_json_patch is all-or-nothing: when an op of the list raises, the
\* document passed in is as it was before the call.
FailedPatchLeavesDocument == PatchRaised => patch.after = patch.doc

\* The same for the patches of one op: the op that raises has changed nothing
FailedOpLeavesDocument == (PatchRaised /\ Len(patch.ops) = 1) => patch.after = patch.doc

\* The second op of a patch raised and the effect of the first remains
EarlierOpRemains ==
    /\ PatchRaised
    /\ Len(patch.ops) = 2
    /\ patch.after # patch.doc
    /\ patch.after = ApplyOp(patch.doc, patch.ops[1]).doc


-----------------------------------------------------------------------------
(* render_survey.py: calculate_completeness and the study header *)

SampleSize == 5     \* questions calculate_completeness samples for notes
MaxRenderQ == 7     \* questions of a rendered document
MaxRenders == 2     \* renders of one document

\* The samples random.sample(questions, min(5, len(questions))) can return, as
\* sets of positions (the count of noted questions does not depend on the order)
Samples(n) ==
    {S \in SUBSET (1..n) : Cardinality(S) = (IF n < SampleSize THEN n ELSE SampleSize)}

\* calculate_completeness, with the sample random.sample drew
CalculateCompleteness(survey, sample) ==
    LET questions == QuestionsCoreOrder(survey)
        subs == survey.MAIN_SECTION.sub_sections
        Part(ok, yes, no) == IF ok THEN [present |-> <<yes>>, missing |-> <<>>]
                             ELSE [present |-> <<>>, missing |-> <<no>>]
        Skip == [present |-> <<>>, missing |-> <<>>]
        parts ==
            <<Part(HasSection(survey, "SAMPLE_REQUIREMENTS"),
                   "Sample Requirements", "Sample Requirements"),
              Part(HasSection(survey, "PROGRAMMING_SPECIFICATIONS"),
                   "Programming Specifications", "Programming Specifications"),
              Part(HasSection(survey, "ANALYSIS_PLAN"), "Analysis Plan", "Analysis Plan"),
              Part(survey.STUDY_METADATA.estimated_loi_minutes # 0,
                   "Estimated LOI", "Estimated LOI"),
              IF questions = <<>> THEN Skip
              ELSE Part(\E i \in sample : TruthyStr(questions[i].q.notes),
                        "Question notes", "Question notes/rationale"),
              IF subs = <<>> THEN Skip
              ELSE Part(\E k \in DOMAIN subs : TruthyStr(subs[k].purpose),
                        "Subsection purposes", "Subsection purposes")>>
        present == Flatten([k \in DOMAIN parts |-> parts[k].present])
        missing == Flatten([k \in DOMAIN parts |-> parts[k].missing])
        total   == Len(present) + Len(missing)
    IN  [score   |-> PyRound(Len(present) * 100, total),
         present |-> present,
         missing |-> missing,
         status  |-> IF missing = <<>> THEN "complete"
                     ELSE IF Len(present) * 100 >= 66 * total THEN "good" ELSE "basic"]

\* render_ui_spec with the study header's completeness: what RenderUiSpec
\* gives, and the completeness computed on the sample drawn in this call
RenderWithHeader(survey, sample) ==
    LET r == RenderUiSpec(survey)
    IN  IF r.raised THEN [raised |-> TRUE, questions |-> <<>>, completeness |-> <<>>]
        ELSE [raised |-> FALSE, questions |-> r.questions,
              completeness |-> <<CalculateCompleteness(survey, sample)>>]

\* The rendered documents: one subsection of up to MaxRenderQ questions, each
\* with or without notes, with and without the optional sections
NotedQuestion(i, noted) ==
    [Q("R" \o ToString(i), "open_ended", TextPlain, <<>>)
        EXCEPT !.notes = IF noted THEN "Asked for the segmentation" ELSE AbsentStr]
RenderDocs ==
    {Survey(keys, <<>>, <<>>,
            <<SubSection("MS1", [i \in 1..n |-> NotedQuestion(i, i \in noted)])>>, <<>>, <<>>) :
        n \in 1..MaxRenderQ, noted \in SUBSET (1..MaxRenderQ),
        keys \in {RequiredTopLevelKeys,
                  RequiredTopLevelKeys
                  \o <<"SAMPLE_REQUIREMENTS", "PROGRAMMING_SPECIFICATIONS", "ANALYSIS_PLAN">>}}

InitRender ==
    /\ render \in {[survey |-> <<s>>, specs |-> <<>>] : s \in RenderDocs}
    /\ docs = <<>> /\ runs = <<>> /\ brief = NoBrief
    /\ caller = [before |-> <<>>, after |-> <<>>]
    /\ nsurvey = <<>> /\ assets = NoAssets /\ loi = LoiIdle /\ patch = PatchIdle
    /\ routing = RoutingIdle /\ batch = BatchIdle

\* ui_spec = render_ui_spec(survey), with whatever sample random.sample draws
Render ==
    /\ Len(render.specs) < MaxRenders
    /\ \E sample \in Samples(Len(QuestionsCoreOrder(render.survey[1]))) :
          render' = [render EXCEPT
                        !.specs = Append(@, RenderWithHeader(render.survey[1], sample))]
    /\ UNCHANGED <<docs, runs, brief, caller, nsurvey, assets, loi, patch, routing, batch>>

NextRender == Render

SpecRender == InitRender /\ [][NextRender]_vars

\* C30: two renders of the same document return equal UI specs, the study
\* header's completeness score, present and missing lists and status included,
\* for surveys of any size.
RenderIsDeterministic ==
    \A i, j \in DOMAIN render.specs : render.specs[i] = render.specs[j]

\* The same for the documents of at most five questions, which are all sampled
RenderIsDeterministicUpToFive ==
    (render.survey # <<>> /\ Len(QuestionsCoreOrder(render.survey[1])) <= SampleSize)
        => RenderIsDeterministic

\* Two renders of a document of six questions, one of them with notes, differ
\* in the completeness score
TwoRendersDiffer ==
    /\ Len(render.specs) = 2
    /\ Len(QuestionsCoreOrder(render.survey[1])) = 6
    /\ render.specs[1].questions = render.specs[2].questions
    /\ render.specs[1].completeness[1].score # render.specs[2].completeness[1].score
    /\ render.specs[1].completeness[1].status # render.specs[2].completeness[1].status

=============================================================================
